---- MODULE Spec2Model ----
(***************************************************************************)
(* Model of the enzyme-installer core: the planner (src/src/planner.rs),   *)
(* the executor (src/src/executor.rs) and the install run that drives them *)
(* (src/src/cli.rs, handle_install).                                       *)
(***************************************************************************)
EXTENDS Integers, Sequences, FiniteSets, TLC

VARIABLES
    manifest,     \* the Manifest handed to the planner
    env,          \* the Environment of the run
    pc,           \* position of the run
    planResult,   \* what plan_install returned
    idx,          \* loop index of execute_plan
    attempted,    \* positions of the plan steps handed to execute_step, in order
    effects,      \* positions of the plan steps whose side effects were applied
    execResult,   \* what execute_plan returned
    versions,     \* the version strings handed to the version comparison
    verdict,      \* what parse_version, compare_versions and version_meets answered
    files,        \* the content of every inode of the state directory
    links,        \* the directory: path -> inode, 0 where the path has no entry
    appendPc,     \* position of each add_install_record call
    appendState,  \* the installs each call holds in memory
    appendFd,     \* the inode each call has open for writing, 0 for none
    crashed,      \* the calls whose process was killed where it stood
    loaded,       \* what the latest load_state of a reader returned
    before,       \* history: the real file as each call found it when it started
    log,          \* history: the records of the calls that returned Ok, in that order
    latest,       \* history: the call that started last, 0 for none
    exitCode,     \* the exit code handle_install returned
    reportedIndex,\* the failed_step_index of the error handle_install emitted
    appendCalls,  \* history: the records handed to add_install_record and its answers
    fsNodes,      \* the file system an Extract step works on: real path -> node
    extractStep,  \* the Extract step: the entries of its archive and its dest
    entryIdx,     \* loop index of perform_extract
    extractResult,\* what perform_extract returned
    created,      \* history: what each entry created, and where it really lies
    templateStep, \* the text of a template and the vars of its step
    rendered      \* what replace_placeholders returned

runVars == <<manifest, env, pc, planResult, idx, attempted, effects, execResult>>

versionVars == <<versions, verdict>>

storeVars ==
    <<files, links, appendPc, appendState, appendFd, crashed, loaded, before, log, latest>>

cliVars == <<exitCode, reportedIndex, appendCalls>>

extractVars == <<fsNodes, extractStep, entryIdx, extractResult, created>>

templateVars == <<templateStep, rendered>>

vars == <<runVars, versionVars, storeVars, cliVars, extractVars, templateVars>>

(***************************************************************************)
(* Bounds of the model.                                                    *)
(***************************************************************************)
MaxRam == 2
MaxSteps == 3

(***************************************************************************)
(* Option<T>.                                                              *)
(***************************************************************************)
None == [some |-> FALSE]
Some(v) == [some |-> TRUE, val |-> v]

(***************************************************************************)
(* Strings, character by character.                                        *)
(***************************************************************************)
CharAt(s, i) == SubSeq(s, i, i)

\* The characters the keys of the model's maps use, in ASCII order.
Alphabet == " +.0123456789ABCDEFGHIJKLMNOPQRSTUVWXYZ_abcdefghijklmnopqrstuvwxyz"

\* The position of each character in that order.
AlphabetRank ==
    [c \in {CharAt(Alphabet, i) : i \in 1..Len(Alphabet)} |->
        CHOOSE i \in 1..Len(Alphabet) : CharAt(Alphabet, i) = c]

CharRank(c) == AlphabetRank[c]

UpperCase == "ABCDEFGHIJKLMNOPQRSTUVWXYZ"
LowerCase == "abcdefghijklmnopqrstuvwxyz"

\* u8::to_ascii_lowercase
ToAsciiLowerChar(c) ==
    IF \E i \in 1..Len(UpperCase) : CharAt(UpperCase, i) = c
    THEN LET i == CHOOSE j \in 1..Len(UpperCase) : CharAt(UpperCase, j) = c
         IN CharAt(LowerCase, i)
    ELSE c

\* EqIgnoreAsciiCase comparing the bytes as they are.
EqExactCase(a, b) == a = b

\* str::eq_ignore_ascii_case
EqIgnoreAsciiCase(a, b) ==
    /\ Len(a) = Len(b)
    /\ \A i \in 1..Len(a) : ToAsciiLowerChar(CharAt(a, i)) = ToAsciiLowerChar(CharAt(b, i))

\* Ord for str: byte-wise lexicographic order.
StrLess(a, b) ==
    \E k \in 1..(Len(b)) :
        /\ k <= Len(a) + 1
        /\ \A i \in 1..(k - 1) : CharAt(a, i) = CharAt(b, i)
        /\ \/ k = Len(a) + 1
           \/ CharRank(CharAt(a, k)) < CharRank(CharAt(b, k))

\* Iteration order of a BTreeMap<String, _> with the key set S: ascending keys.
RECURSIVE SortedKeys(_)
SortedKeys(S) ==
    IF S = {} THEN <<>>
    ELSE LET least == CHOOSE k \in S : \A o \in S \ {k} : StrLess(k, o)
         IN <<least>> \o SortedKeys(S \ {least})

\* str::to_lowercase, on ASCII text.
RECURSIVE ToLowercase(_)
ToLowercase(s) ==
    IF Len(s) = 0 THEN ""
    ELSE ToAsciiLowerChar(CharAt(s, 1)) \o ToLowercase(SubSeq(s, 2, Len(s)))

\* str::trim, for the whitespace the model uses (the space).
RECURSIVE TrimStart(_)
TrimStart(s) ==
    IF Len(s) > 0 /\ CharAt(s, 1) = " " THEN TrimStart(SubSeq(s, 2, Len(s))) ELSE s

RECURSIVE TrimEnd(_)
TrimEnd(s) ==
    IF Len(s) > 0 /\ CharAt(s, Len(s)) = " " THEN TrimEnd(SubSeq(s, 1, Len(s) - 1)) ELSE s

Trim(s) == TrimEnd(TrimStart(s))

\* str::split on one character: the pieces between the separators.
RECURSIVE SplitFrom(_, _, _)
SplitFrom(s, sep, start) ==
    IF \E i \in start..Len(s) : CharAt(s, i) = sep
    THEN LET i == CHOOSE j \in start..Len(s) :
                      /\ CharAt(s, j) = sep
                      /\ \A k \in start..(j - 1) : CharAt(s, k) # sep
         IN <<SubSeq(s, start, i - 1)>> \o SplitFrom(s, sep, i + 1)
    ELSE <<SubSeq(s, start, Len(s))>>

Split(s, sep) == SplitFrom(s, sep, 1)

Digits == "0123456789"

IsDigit(c) == \E i \in 1..10 : CharAt(Digits, i) = c

DigitValue(c) == (CHOOSE i \in 1..10 : CharAt(Digits, i) = c) - 1

\* u64::MAX, in decimal digits.
U64MaxDigits == "18446744073709551615"

RECURSIVE StripZeros(_)
StripZeros(s) ==
    IF Len(s) > 1 /\ CharAt(s, 1) = "0" THEN StripZeros(SubSeq(s, 2, Len(s))) ELSE s

\* The digits stand for a number above u64::MAX: parse fails with PosOverflow.
OverflowsU64(digits) ==
    LET d == StripZeros(digits)
    IN \/ Len(d) > Len(U64MaxDigits)
       \/ /\ Len(d) = Len(U64MaxDigits)
          /\ \E k \in 1..Len(d) :
                /\ \A i \in 1..(k - 1) : CharAt(d, i) = CharAt(U64MaxDigits, i)
                /\ DigitValue(CharAt(d, k)) > DigitValue(CharAt(U64MaxDigits, k))

\* str::parse::<u64>: an optional "+", then one or more decimal digits that stand for
\* a number up to u64::MAX.
RECURSIVE DigitsValue(_, _)
DigitsValue(s, acc) ==
    IF Len(s) = 0 THEN acc
    ELSE DigitsValue(SubSeq(s, 2, Len(s)), acc * 10 + DigitValue(CharAt(s, 1)))

ParseU64(s) ==
    LET body == IF Len(s) > 0 /\ CharAt(s, 1) = "+" THEN SubSeq(s, 2, Len(s)) ELSE s
    IN IF Len(body) = 0 \/ \E i \in 1..Len(body) : ~IsDigit(CharAt(body, i))
       THEN None
       ELSE IF OverflowsU64(body) THEN None
       ELSE Some(DigitsValue(body, 0))

(***************************************************************************)
(* Result<T, E>.                                                           *)
(***************************************************************************)
Ok(v) == [ok |-> TRUE, val |-> v]
Err(e) == [ok |-> FALSE, err |-> e]

(***************************************************************************)
(* manifest.rs: steps.                                                     *)
(***************************************************************************)
RunStep(command) == [kind |-> "run", run |-> command]
DownloadStep(url, dest) == [kind |-> "download", url |-> url, dest |-> dest]
ExtractStep(archive, dest) == [kind |-> "extract", archive |-> archive, dest |-> dest]
TemplateConfigStep(source, dest) == [kind |-> "template_config", source |-> source, dest |-> dest]

\* Step::description for the variants other than Run.
OtherStepDescription(step) ==
    CASE step.kind = "download" -> "Download: " \o step.url
      [] step.kind = "extract" -> "Extract: " \o step.archive
      [] step.kind = "template_config" -> "Template: " \o step.source

\* Step::description
StepDescription(step) ==
    IF step.kind = "run" THEN "Run: " \o step.run ELSE OtherStepDescription(step)

\* Step::command
StepCommand(step) ==
    IF step.kind = "run" THEN step.run ELSE ""

(***************************************************************************)
(* manifest.rs: OS constraints.                                            *)
(***************************************************************************)
OsConstraint(family, min_version) == [family |-> family, min_version |-> min_version]

\* The positions where ">=" starts in raw.
GeAt(raw) == {i \in 1..(Len(raw) - 1) : SubSeq(raw, i, i + 1) = ">="}

\* parse_os_constraint: "<family>" or "<family>>=<version>", split at the first ">=",
\* both parts trimmed and the family lower-cased.
parse_os_constraint(raw) ==
    IF GeAt(raw) # {}
    THEN LET at == CHOOSE i \in GeAt(raw) : \A j \in GeAt(raw) : i <= j
             family_part == SubSeq(raw, 1, at - 1)
             version_part == SubSeq(raw, at + 2, Len(raw))
             family == ToLowercase(Trim(family_part))
         IN IF family = "" \/ Trim(version_part) = ""
            THEN Err("invalid OS constraint format: " \o raw)
            ELSE Ok(OsConstraint(family, Some(Trim(version_part))))
    ELSE IF Trim(raw) # ""
    THEN Ok(OsConstraint(ToLowercase(Trim(raw)), None))
    ELSE Err("invalid OS constraint format: " \o raw)

(***************************************************************************)
(* env_detect.rs: the names detect_environment gives the OS and the CPU.   *)
(***************************************************************************)
normalize_os(raw) ==
    CASE raw = "macos" -> "macos"
      [] raw = "windows" -> "windows"
      [] OTHER -> ToLowercase(raw)

normalize_arch(raw) ==
    CASE raw = "x86_64" -> "x64"
      [] raw = "aarch64" -> "arm64"
      [] OTHER -> ToLowercase(raw)

(***************************************************************************)
(* planner.rs: version comparison.                                         *)
(***************************************************************************)
\* parse_version: None as soon as one part fails to parse.
RECURSIVE ParseParts(_)
ParseParts(parts) ==
    IF parts = <<>> THEN Some(<<>>)
    ELSE LET head == ParseU64(Trim(parts[1]))
             rest == ParseParts(Tail(parts))
         IN IF ~head.some \/ ~rest.some THEN None
            ELSE Some(<<head.val>> \o rest.val)

parse_version(version) == ParseParts(Split(version, "."))

Max(a, b) == IF a >= b THEN a ELSE b

GetOr0(a, i) == IF i <= Len(a) THEN a[i] ELSE 0

\* compare_versions without the zero padding: the order of Vec<u64>, where a proper
\* prefix is Less.
compare_versions_unpadded(a, b) ==
    LET min_len == IF Len(a) <= Len(b) THEN Len(a) ELSE Len(b)
        differ == {i \in 1..min_len : a[i] # b[i]}
    IN IF differ = {}
       THEN (IF Len(a) = Len(b) THEN "Equal" ELSE IF Len(a) < Len(b) THEN "Less" ELSE "Greater")
       ELSE LET i == CHOOSE j \in differ : \A k \in differ : j <= k
            IN IF a[i] < b[i] THEN "Less" ELSE "Greater"

\* compare_versions: "Less", "Equal" or "Greater", decided by the first position
\* where the zero-padded sequences differ.
compare_versions(a, b) ==
    LET max_len == Max(Len(a), Len(b))
        differ == {i \in 1..max_len : GetOr0(a, i) # GetOr0(b, i)}
    IN IF differ = {} THEN "Equal"
       ELSE LET i == CHOOSE j \in differ : \A k \in differ : j <= k
            IN IF GetOr0(a, i) < GetOr0(b, i) THEN "Less" ELSE "Greater"

\* version_meets reading a string that does not parse as the empty version.
version_meets_malformed_as_empty(min_version, actual) ==
    LET min_parts == parse_version(min_version)
        actual_parts == parse_version(actual)
    IN compare_versions(IF actual_parts.some THEN actual_parts.val ELSE <<>>,
                        IF min_parts.some THEN min_parts.val ELSE <<>>) # "Less"

version_meets(min_version, actual) ==
    LET min_parts == parse_version(min_version)
        actual_parts == parse_version(actual)
    IN IF min_parts.some /\ actual_parts.some
       THEN compare_versions(actual_parts.val, min_parts.val) # "Less"
       ELSE actual = min_version

(***************************************************************************)
(* planner.rs: compatibility of one mode.                                  *)
(***************************************************************************)
\* os_matches with the minimum version left unchecked.
os_matches_family_only(e, constraint) == constraint.family = e.os

os_matches(e, constraint) ==
    IF constraint.family # e.os THEN FALSE
    ELSE IF constraint.min_version.some
         THEN version_meets(constraint.min_version.val, e.os_version)
         ELSE TRUE

\* RamTooSmall with the boundary on the wrong side.
RamTooSmallOrEqual(ram_gb, required_ram_gb) == ram_gb <= required_ram_gb

\* env.ram_gb < required_ram
RamTooSmall(ram_gb, required_ram_gb) == ram_gb < required_ram_gb

\* {:?} of a String, an Option<String>, an OsConstraint and a Vec of them.
DebugStr(s) == "\"" \o s \o "\""

DebugOptStr(o) == IF o.some THEN "Some(" \o DebugStr(o.val) \o ")" ELSE "None"

DebugOsConstraint(c) ==
    "OsConstraint { family: " \o DebugStr(c.family)
        \o ", min_version: " \o DebugOptStr(c.min_version) \o " }"

RECURSIVE JoinComma(_)
JoinComma(items) ==
    IF items = <<>> THEN ""
    ELSE IF Len(items) = 1 THEN items[1]
    ELSE items[1] \o ", " \o JoinComma(Tail(items))

DebugOsList(cs) == "[" \o JoinComma([i \in 1..Len(cs) |-> DebugOsConstraint(cs[i])]) \o "]"

DebugStrList(xs) == "[" \o JoinComma([i \in 1..Len(xs) |-> DebugStr(xs[i])]) \o "]"

\* is_mode_compatible with the requirements checked before the steps.
is_mode_compatible_steps_last(mode_name, mode, e) ==
    LET requirements == mode.requirements.val
    IN IF /\ mode.requirements.some
          /\ requirements.os # <<>>
          /\ ~\E i \in 1..Len(requirements.os) : os_matches(e, requirements.os[i])
       THEN Err("requires " \o DebugOsList(requirements.os) \o ", found "
                    \o e.os \o " " \o e.os_version)
       ELSE IF /\ mode.requirements.some
               /\ requirements.cpu_arch # <<>>
               /\ ~\E i \in 1..Len(requirements.cpu_arch) :
                      EqIgnoreAsciiCase(requirements.cpu_arch[i], e.cpu_arch)
       THEN Err("requires CPU in " \o DebugStrList(requirements.cpu_arch)
                    \o ", found " \o e.cpu_arch)
       ELSE IF /\ mode.requirements.some
               /\ requirements.ram_gb.some
               /\ RamTooSmall(e.ram_gb, requirements.ram_gb.val)
       THEN Err("requires >= " \o ToString(requirements.ram_gb.val)
                    \o " GiB RAM, found " \o ToString(e.ram_gb) \o " GiB")
       ELSE IF e.os \notin DOMAIN mode.steps THEN Ok(FALSE)
       ELSE Ok(TRUE)

\* is_mode_compatible: Ok(FALSE) without steps for env.os, Err(reason) when a
\* requirement fails, Ok(TRUE) otherwise.
is_mode_compatible(mode_name, mode, e) ==
    IF e.os \notin DOMAIN mode.steps THEN Ok(FALSE)
    ELSE IF ~mode.requirements.some THEN Ok(TRUE)
    ELSE LET requirements == mode.requirements.val
         IN IF /\ requirements.os # <<>>
               /\ ~\E i \in 1..Len(requirements.os) : os_matches(e, requirements.os[i])
            THEN Err("requires " \o DebugOsList(requirements.os) \o ", found "
                         \o e.os \o " " \o e.os_version)
            ELSE IF /\ requirements.cpu_arch # <<>>
                    /\ ~\E i \in 1..Len(requirements.cpu_arch) :
                           EqIgnoreAsciiCase(requirements.cpu_arch[i], e.cpu_arch)
            THEN Err("requires CPU in " \o DebugStrList(requirements.cpu_arch)
                         \o ", found " \o e.cpu_arch)
            ELSE IF requirements.ram_gb.some /\ RamTooSmall(e.ram_gb, requirements.ram_gb.val)
            THEN Err("requires >= " \o ToString(requirements.ram_gb.val)
                         \o " GiB RAM, found " \o ToString(e.ram_gb) \o " GiB")
            ELSE Ok(TRUE)

(***************************************************************************)
(* planner.rs: choice among the compatible modes.                          *)
(***************************************************************************)
\* required_ram
required_ram(mode) ==
    IF mode.requirements.some /\ mode.requirements.val.ram_gb.some
    THEN mode.requirements.val.ram_gb.val
    ELSE 0

\* MaxByRam keeping the accumulator on a tie: the first of the largest wins.
RECURSIVE MaxByRamFirstWins(_, _)
MaxByRamFirstWins(acc, rest) ==
    IF rest = <<>> THEN acc
    ELSE MaxByRamFirstWins(
             IF required_ram(acc[2]) >= required_ram(rest[1][2]) THEN acc ELSE rest[1],
             Tail(rest))

\* MaxByRam with the comparison the wrong way round: the smallest wins.
RECURSIVE MaxByRamLeast(_, _)
MaxByRamLeast(acc, rest) ==
    IF rest = <<>> THEN acc
    ELSE MaxByRamLeast(
             IF required_ram(acc[2]) < required_ram(rest[1][2]) THEN acc ELSE rest[1],
             Tail(rest))

\* Iterator::max_by over a non-empty sequence of (name, mode) pairs: a left fold
\* that keeps the accumulator only when it compares Greater than the next element.
RECURSIVE MaxByRam(_, _)
MaxByRam(acc, rest) ==
    IF rest = <<>> THEN acc
    ELSE MaxByRam(IF required_ram(acc[2]) > required_ram(rest[1][2]) THEN acc ELSE rest[1],
                  Tail(rest))

\* choose_best_mode without the preference for "full".
choose_best_mode_by_ram_only(modes) == MaxByRam(modes[1], Tail(modes))

\* choose_best_mode: the first pair named "full", else the max_by of required_ram.
choose_best_mode(modes) ==
    IF \E i \in 1..Len(modes) : modes[i][1] = "full"
    THEN modes[CHOOSE i \in 1..Len(modes) :
                   /\ modes[i][1] = "full"
                   /\ \A j \in 1..(i - 1) : modes[j][1] # "full"]
    ELSE MaxByRam(modes[1], Tail(modes))

(***************************************************************************)
(* planner.rs: plan_install.                                               *)
(***************************************************************************)
\* The zero-based index a planned step is tagged with.
PlannedStepIndex(position) == position

\* The PlannedStep built from the manifest step at a zero-based position.
PlannedStepOf(position, step) ==
    [index |-> PlannedStepIndex(position),
     step |-> step,
     description |-> StepDescription(step),
     command |-> StepCommand(step)]

\* PlannedSteps with the steps collected in reverse.
PlannedStepsReversed(steps) ==
    [i \in 1..Len(steps) |-> PlannedStepOf(i - 1, steps[Len(steps) + 1 - i])]

\* The steps of the plan: the manifest steps mapped one by one, in their order.
PlannedSteps(steps) ==
    [i \in 1..Len(steps) |-> PlannedStepOf(i - 1, steps[i])]

\* PushMissingSteps with no reason recorded for a mode without steps.
PushMissingStepsSkipped(reasons, mode_name, e) == reasons

\* The reason pushed for a mode is_mode_compatible answered Ok(false) for.
PushMissingSteps(reasons, mode_name, e) ==
    Append(reasons, mode_name \o ": missing required steps for " \o e.os)

\* CheckModes taking every mode of the manifest as compatible, unchecked.
CheckModesAll(m, e, names, compatible_modes, reasons) ==
    [compatible_modes |->
         compatible_modes \o [i \in 1..Len(names) |-> <<names[i], m.modes[names[i]]>>],
     reasons |-> reasons]

\* The loop of plan_install over manifest.modes, in the map's iteration order:
\* the compatible (name, mode) pairs and the reasons, as the loop leaves them.
RECURSIVE CheckModes(_, _, _, _, _)
CheckModes(m, e, names, compatible_modes, reasons) ==
    IF names = <<>> THEN [compatible_modes |-> compatible_modes, reasons |-> reasons]
    ELSE LET mode_name == names[1]
             mode == m.modes[mode_name]
             res == is_mode_compatible(mode_name, mode, e)
         IN IF res.ok /\ res.val
            THEN CheckModes(m, e, Tail(names),
                            Append(compatible_modes, <<mode_name, mode>>), reasons)
            ELSE IF res.ok
            THEN CheckModes(m, e, Tail(names), compatible_modes,
                            PushMissingSteps(reasons, mode_name, e))
            ELSE CheckModes(m, e, Tail(names), compatible_modes,
                            Append(reasons, mode_name \o ": " \o res.err))

NoCompatibleMode(e, reasons) ==
    [kind |-> "NoCompatibleMode", environment |-> e, reasons |-> reasons]

\* NoPlan answering that the plan fails as soon as one mode was rejected.
NoPlanOnAnyReason(checked) ==
    checked.reasons # <<>> \/ checked.compatible_modes = <<>>

\* compatible_modes.is_empty(): plan_install has no mode to plan with.
NoPlan(checked) == checked.compatible_modes = <<>>

\* A panic of the thread inside plan_install: the message of the failed expect.
Panic(message) == Err([kind |-> "Panic", message |-> message])

\* choose_best_mode panics: find and max_by give None for no modes at all, and
\* .expect("at least one mode available") fails.
ChoicePanics(modes) == modes = <<>>

\* The lookup of the chosen mode's steps panics: steps.get(&env.os) is None, and
\* .expect("validated in compatibility check") fails.
LookupPanics(mode, e) == e.os \notin DOMAIN mode.steps

plan_install(m, e) ==
    LET checked == CheckModes(m, e, SortedKeys(DOMAIN m.modes), <<>>, <<>>)
    IN IF NoPlan(checked)
       THEN Err(NoCompatibleMode(e, checked.reasons))
       ELSE IF ChoicePanics(checked.compatible_modes)
       THEN Panic("at least one mode available")
       ELSE LET chosen == choose_best_mode(checked.compatible_modes)
            IN IF LookupPanics(chosen[2], e)
               THEN Panic("validated in compatibility check")
               ELSE Ok([app_name |-> m.name,
                        app_version |-> m.version,
                        chosen_mode |-> chosen[1],
                        os |-> e.os,
                        steps |-> PlannedSteps(chosen[2].steps[e.os])])

(***************************************************************************)
(* executor.rs: execute_step and execute_plan.                             *)
(***************************************************************************)
StepFailed(index, message) == [kind |-> "StepFailed", index |-> index, message |-> message]

Other(message) == [kind |-> "Other", message |-> message]

\* The errors run_command, perform_download, perform_extract and render_template
\* can return for a step: what the shell, the network and the filesystem decide.
StepErrors(step) ==
    CASE step.kind = "run" ->
            {"running shell command: " \o step.run, "command exited with status Some(1)"}
      [] step.kind = "download" ->
            {"requesting " \o step.url, "download failed with status 404 Not Found"}
      [] step.kind = "extract" ->
            {"opening archive " \o step.archive, "archive entry escapes destination: ../escape.txt"}
      [] step.kind = "template_config" ->
            {"opening template " \o step.source}

\* What the operation behind a step can come to: Ok(()) or one of its errors.
StepOutcomes(step) == {Ok("unit")} \cup {Err(message) : message \in StepErrors(step)}

\* execute_step with the index reported one-based.
execute_step_one_based(os, planned, outcome) ==
    IF outcome.ok THEN Ok("unit")
    ELSE Err(StepFailed(planned.index + 1, outcome.err))

\* execute_step: the outcome of the step's operation, an error mapped to StepFailed
\* with the index the planned step carries.
execute_step(os, planned, outcome) ==
    IF outcome.ok THEN Ok("unit")
    ELSE Err(StepFailed(planned.index, outcome.err))

\* The error execute_plan returns for the error of execute_step at loop index i.
PlanError(i, err) ==
    IF err.kind = "StepFailed" THEN err ELSE StepFailed(i, err.message)

\* ExecutionResult with the step that ended the loop left out of the count.
ExecutionResultShort(completed_steps, total_steps) ==
    [completed_steps |-> IF completed_steps = 0 THEN 0 ELSE completed_steps - 1,
     total_steps |-> total_steps]

ExecutionResult(completed_steps, total_steps) ==
    [completed_steps |-> completed_steps, total_steps |-> total_steps]

(***************************************************************************)
(* executor.rs: paths and the file system under perform_extract.  A path   *)
(* is its components with the root marked; the file system maps the real   *)
(* absolute location of every node to what is there.  Symbolic links point *)
(* at absolute locations and form no cycles.                               *)
(***************************************************************************)
\* The working directory of the process, against which relative paths resolve.
Cwd == <<"home">>

Front(s) == SubSeq(s, 1, Len(s) - 1)

\* Path::components: the names between the separators, without empty ones and ".".
Components(name) ==
    LET Named(c) == c # "" /\ c # "."
    IN SelectSeq(Split(name, "/"), Named)

\* PathBuf::from(name)
PathBufFrom(name) ==
    [abs |-> Len(name) > 0 /\ CharAt(name, 1) = "/", parts |-> Components(name)]

\* No component counts as a parent-directory component.
HasParentDirNever(path) == FALSE

\* path.components().any(|c| matches!(c, Component::ParentDir))
HasParentDir(path) == \E i \in 1..Len(path.parts) : path.parts[i] = ".."

\* Path::join: an absolute argument replaces the base.
Join(base, path) ==
    IF path.abs THEN path ELSE [abs |-> base.abs, parts |-> base.parts \o path.parts]

\* Path::starts_with: whole components, the root included.
PathStartsWith(path, base) ==
    /\ path.abs = base.abs
    /\ Len(base.parts) <= Len(path.parts)
    /\ SubSeq(path.parts, 1, Len(base.parts)) = base.parts

\* Path::parent
Parent(path) ==
    IF path.parts = <<>> THEN None ELSE Some([abs |-> path.abs, parts |-> Front(path.parts)])

\* The components from the root the operating system walks for a path.
Absolute(path) == IF path.abs THEN path.parts ELSE Cwd \o path.parts

DirNode == [kind |-> "dir", target |-> <<>>]
FileNode == [kind |-> "file", target |-> <<>>]
LinkNode(target) == [kind |-> "link", target |-> target]

Put(fs, at, node) == [q \in DOMAIN fs \cup {at} |-> IF q = at THEN node ELSE fs[q]]

\* The walk of the operating system from the real directory cur along rest, following
\* links: the real location reached, None where a component is missing or is a file
\* with components left.
RECURSIVE Walk(_, _, _)
Walk(fs, cur, rest) ==
    IF rest = <<>> THEN Some(cur)
    ELSE IF Head(rest) = ".."
    THEN Walk(fs, IF cur = <<>> THEN cur ELSE Front(cur), Tail(rest))
    ELSE LET next == Append(cur, Head(rest))
         IN IF next \notin DOMAIN fs THEN None
            ELSE IF fs[next].kind = "link" THEN Walk(fs, <<>>, fs[next].target \o Tail(rest))
            ELSE IF fs[next].kind = "file" /\ Tail(rest) # <<>> THEN None
            ELSE Walk(fs, next, Tail(rest))

\* fs::canonicalize: the real absolute path, an error (None) where the path does not
\* exist.
canonicalize(fs, path) ==
    LET real == Walk(fs, <<>>, Absolute(path))
    IN IF real.some THEN Some([abs |-> TRUE, parts |-> real.val]) ELSE None

\* The walk of fs::create_dir_all: every missing component becomes a directory, at its
\* real location; a file in the way is an error, and what was made before it stays.
RECURSIVE MkdirWalk(_, _, _, _)
MkdirWalk(fs, cur, rest, made) ==
    IF rest = <<>> THEN [ok |-> TRUE, fs |-> fs, made |-> made]
    ELSE IF Head(rest) = ".."
    THEN MkdirWalk(fs, IF cur = <<>> THEN cur ELSE Front(cur), Tail(rest), made)
    ELSE LET next == Append(cur, Head(rest))
         IN IF next \notin DOMAIN fs
            THEN MkdirWalk(Put(fs, next, DirNode), next, Tail(rest), made \cup {next})
            ELSE IF fs[next].kind = "link"
            THEN MkdirWalk(fs, <<>>, fs[next].target \o Tail(rest), made)
            ELSE IF fs[next].kind = "file" THEN [ok |-> FALSE, fs |-> fs, made |-> made]
            ELSE MkdirWalk(fs, next, Tail(rest), made)

\* fs::create_dir_all(path)
create_dir_all(fs, path) == MkdirWalk(fs, <<>>, Absolute(path), {})

\* File::create(path): open with O_CREAT | O_TRUNC, which follows the links on the way
\* and writes at the real location; `at` is that location.
FileCreate(fs, path) ==
    LET full == Absolute(path)
        failed == [ok |-> FALSE, fs |-> fs, at |-> <<>>]
    IN IF full = <<>> \/ full[Len(full)] = ".." THEN failed
       ELSE LET dir == Walk(fs, <<>>, Front(full))
            IN IF ~dir.some THEN failed
               ELSE IF dir.val # <<>> /\ fs[dir.val].kind # "dir" THEN failed
               ELSE LET at == Append(dir.val, full[Len(full)])
                    IN IF at \notin DOMAIN fs
                       THEN [ok |-> TRUE, fs |-> Put(fs, at, FileNode), at |-> at]
                       ELSE IF fs[at].kind = "file" THEN [ok |-> TRUE, fs |-> fs, at |-> at]
                       ELSE IF fs[at].kind = "dir" THEN failed
                       ELSE LET real == Walk(fs, <<>>, fs[at].target)
                            IN IF real.some /\ real.val \in DOMAIN fs
                                  /\ fs[real.val].kind = "file"
                               THEN [ok |-> TRUE, fs |-> fs, at |-> real.val]
                               ELSE failed

(***************************************************************************)
(* executor.rs: sanitize_extract_path and the body of the loop of          *)
(* perform_extract.                                                        *)
(***************************************************************************)
\* anyhow!("archive entry ...: {name}")
Rejection(message, name) == [kind |-> "rejected", message |-> message, name |-> name]

\* An error of the file system passed on by `?`.
IoError(message) == [kind |-> "io", message |-> message, name |-> ""]

Extracted == [kind |-> "ok", message |-> "", name |-> ""]

sanitize_extract_path(fs, dest, name) ==
    LET path == PathBufFrom(name)
        full_path == Join(dest, path)
        found_dest == canonicalize(fs, dest)
        canonical_dest == IF found_dest.some THEN found_dest.val ELSE dest
        found_full == canonicalize(fs, full_path)
        canonical_full == IF found_full.some THEN found_full.val ELSE full_path
    IN IF HasParentDir(path)
       THEN Err(Rejection("archive entry escapes destination", name))
       ELSE IF path.abs
       THEN Err(Rejection("archive entry has absolute path", name))
       ELSE IF ~PathStartsWith(canonical_full, canonical_dest)
       THEN Err(Rejection("archive entry outside destination", name))
       ELSE Ok(full_path)

\* ZipFile::is_dir: the name of the entry ends in a separator.
IsDir(name) == Len(name) > 0 /\ CharAt(name, Len(name)) = "/"

\* The file is not created.
WriteEntryNowhere(fs, outpath) ==
    LET parent == Parent(outpath)
        dirs == IF parent.some THEN create_dir_all(fs, parent.val)
                ELSE [ok |-> TRUE, fs |-> fs, made |-> {}]
    IN [ok |-> dirs.ok, fs |-> dirs.fs, made |-> dirs.made, wrote |-> None]

\* The else branch of the loop: the parent directories, then the file.
WriteEntry(fs, outpath) ==
    LET parent == Parent(outpath)
        dirs == IF parent.some THEN create_dir_all(fs, parent.val)
                ELSE [ok |-> TRUE, fs |-> fs, made |-> {}]
        file == FileCreate(dirs.fs, outpath)
    IN IF ~dirs.ok THEN [ok |-> FALSE, fs |-> dirs.fs, made |-> dirs.made, wrote |-> None]
       ELSE IF ~file.ok THEN [ok |-> FALSE, fs |-> dirs.fs, made |-> dirs.made, wrote |-> None]
       ELSE [ok |-> TRUE, fs |-> file.fs, made |-> dirs.made, wrote |-> Some(file.at)]

\* What one accepted entry does to the file system: `made` are the real locations of
\* the directories it creates, `wrote` the real location of its file.
ExtractTo(fs, outpath, is_dir) ==
    IF is_dir
    THEN LET dirs == create_dir_all(fs, outpath)
         IN [ok |-> dirs.ok, fs |-> dirs.fs, made |-> dirs.made, wrote |-> None]
    ELSE WriteEntry(fs, outpath)

(***************************************************************************)
(* executor.rs: replace_placeholders.                                      *)
(***************************************************************************)
\* str::find: the first position from `from` on where pattern starts, 0 for None.
Find(s, pattern, from) ==
    LET hits == {i \in from..(Len(s) - Len(pattern) + 1) :
                    SubSeq(s, i, i + Len(pattern) - 1) = pattern}
    IN IF hits = {} THEN 0 ELSE CHOOSE i \in hits : \A j \in hits : i <= j

\* The key looked up, taken as it stands between the braces.
LookupKeyUntrimmed(key) == key

\* The key looked up in vars: key.trim()
LookupKey(key) == Trim(key)

\* The loop of replace_placeholders on what is left of the template, with the text
\* built so far.
RECURSIVE ReplaceFrom(_, _, _)
ReplaceFrom(remainder, result, template_vars) ==
    LET start == Find(remainder, "{{", 1)
        end_index == IF start = 0 THEN 0 ELSE Find(remainder, "}}", start + 2)
    IN IF start = 0 \/ end_index = 0 THEN result \o remainder
       ELSE LET key == SubSeq(remainder, start + 2, end_index - 1)
                piece == IF LookupKey(key) \in DOMAIN template_vars
                         THEN template_vars[LookupKey(key)]
                         ELSE "{{" \o key \o "}}"
            IN ReplaceFrom(SubSeq(remainder, end_index + 2, Len(remainder)),
                           result \o SubSeq(remainder, 1, start - 1) \o piece,
                           template_vars)

replace_placeholders(template, template_vars) == ReplaceFrom(template, "", template_vars)

(***************************************************************************)
(* state.rs: the history store, over the files of the state directory.     *)
(***************************************************************************)
\* State, and the InstallRecord a call appends; the timestamp tells the records apart.
State(installs) == [installs |-> installs]

InstallRecord(timestamp) ==
    [app_name |-> "demo", app_version |-> "1.0.0", mode |-> "pro", os |-> "windows",
     cpu_arch |-> "x64", timestamp |-> timestamp, status |-> "success"]

\* The text of a state file, piece by piece: the opening of the JSON document, one
\* piece per record, the closing.
OpenToken == [t |-> "open"]
RecordToken(record) == [t |-> "record", record |-> record]
CloseToken == [t |-> "close"]

\* serde_json::to_string_pretty
Serialize(state) ==
    <<OpenToken>>
        \o [i \in 1..Len(state.installs) |-> RecordToken(state.installs[i])]
        \o <<CloseToken>>

\* serde_json::from_str: an error unless the text is one complete document.
Deserialize(data) ==
    IF /\ Len(data) >= 2
       /\ data[1].t = "open"
       /\ data[Len(data)].t = "close"
       /\ \A i \in 2..(Len(data) - 1) : data[i].t = "record"
    THEN Ok(State([i \in 1..(Len(data) - 2) |-> data[i + 1].record]))
    ELSE Err("parsing state file")

\* state_file_path, inside the data directory.
StatePath == "state.json"

\* Path::with_extension leaving the path as it is.
WithExtensionKept(path, extension) == path

\* Path::with_extension: the text after the last "." replaced.
WithExtension(path, extension) ==
    LET dots == {i \in 1..Len(path) : CharAt(path, i) = "."}
    IN IF dots = {} THEN path \o "." \o extension
       ELSE LET last == CHOOSE i \in dots : \A j \in dots : j <= i
            IN SubSeq(path, 1, last) \o extension

\* tmp_path of save_state
TmpPath == WithExtension(StatePath, "tmp")

Paths == {StatePath, TmpPath}

\* load_state with a missing file reported as an error.
load_state_missing_is_error(directory, inodes) ==
    IF directory[StatePath] = 0 THEN Err("reading state file")
    ELSE Deserialize(inodes[directory[StatePath]])

\* load_state: the default State without a file, else the parsed text of the file.
load_state(directory, inodes) ==
    IF directory[StatePath] = 0 THEN Ok(State(<<>>))
    ELSE Deserialize(inodes[directory[StatePath]])

\* push with the new record put first.
PushRecordFirst(installs, record) == <<record>> \o installs

\* state.installs.push(record)
PushRecord(installs, record) == Append(installs, record)

\* write(2) at offset 0 of an open file: the bytes written replace what was there,
\* what lay beyond them stays.
Overlay(content, data) == data \o SubSeq(content, Len(data) + 1, Len(content))

\* rename(2) that leaves an existing target in place.
RenameKeepsTarget(directory, from, to) ==
    IF from = to THEN directory
    ELSE IF directory[to] # 0 THEN [directory EXCEPT ![from] = 0]
    ELSE [directory EXCEPT ![to] = directory[from], ![from] = 0]

\* rename(2): the target names the source's inode and the source name is gone, in
\* one step.
Rename(directory, from, to) ==
    IF from = to THEN directory
    ELSE [directory EXCEPT ![to] = directory[from], ![from] = 0]

\* The inodes a name or an open file still refers to; the others are freed.
Referenced(inodes, directory, fds) ==
    [i \in {j \in DOMAIN inodes :
                \/ \E path \in Paths : directory[path] = j
                \/ \E q \in DOMAIN fds : fds[q] = j} |-> inodes[i]]

\* An inode number no file has.
FreshInode(inodes) ==
    IF DOMAIN inodes = {} THEN 1
    ELSE 1 + CHOOSE i \in DOMAIN inodes : \A j \in DOMAIN inodes : j <= i

\* What write_all can come to on a text: all of it written, or an error after the
\* first k pieces.
WriteOutcomes(data) ==
    {[ok |-> TRUE, written |-> Len(data)]}
    \cup {[ok |-> FALSE, written |-> k] : k \in 0..(Len(data) - 1)}

\* The text add_install_record is to write: the State it loads, with the record
\* pushed; the empty State stands in where load_state fails and nothing is written.
AppendData(directory, inodes, record) ==
    LET current == load_state(directory, inodes)
    IN Serialize(State(PushRecord(IF current.ok THEN current.val.installs ELSE <<>>, record)))

\* What the operating system can make of one add_install_record: the existing file
\* read or not, the temporary file opened or not (create_dir_all and File::create),
\* write_all as far as WriteOutcomes says, the rename done or not.
AppendOutcomes(data) ==
    LET Outcome(readable, opened, ok, written, renamed) ==
            [readable |-> readable, opened |-> opened, ok |-> ok, written |-> written,
             renamed |-> renamed]
    IN {Outcome(TRUE, TRUE, w.ok, w.written, TRUE) : w \in WriteOutcomes(data)}
       \cup {Outcome(FALSE, TRUE, TRUE, Len(data), TRUE),
             Outcome(TRUE, FALSE, TRUE, Len(data), TRUE),
             Outcome(TRUE, TRUE, TRUE, Len(data), FALSE)}

\* The State of a file that does not load is taken to be the empty one.
LoadOrDefault(current) == IF current.ok THEN current ELSE Ok(State(<<>>))

\* `load_state()?`: the error of load_state is the answer of add_install_record.
LoadOrReturn(current) == current

\* add_install_record run by one process with no other at work: the answer and the
\* directory and files it leaves. io tells what the operating system makes of it.
add_install_record(directory, inodes, record, io) ==
    LET current == LoadOrReturn(IF directory[StatePath] # 0 /\ ~io.readable
                                THEN Err("reading state file")
                                ELSE load_state(directory, inodes))
    IN IF ~current.ok
       THEN [result |-> Err(current.err), links |-> directory, files |-> inodes]
       ELSE IF ~io.opened
       THEN [result |-> Err("writing temp state file"), links |-> directory,
             files |-> inodes]
       ELSE LET data == AppendData(directory, inodes, record)
                ino == IF directory[TmpPath] # 0 THEN directory[TmpPath]
                       ELSE FreshInode(inodes)
                opened == [i \in DOMAIN inodes \cup {ino} |->
                              IF i = ino THEN <<>> ELSE inodes[i]]
                entered == [directory EXCEPT ![TmpPath] = ino]
                written == [opened EXCEPT
                               ![ino] = Overlay(@, SubSeq(data, 1, io.written))]
            IN IF ~io.ok
               THEN [result |-> Err("writing temp state file"),
                     links |-> entered, files |-> written]
               ELSE IF ~io.renamed
               THEN [result |-> Err("committing state file"),
                     links |-> entered, files |-> written]
               ELSE LET renamed == Rename(entered, TmpPath, StatePath)
                    IN [result |-> Ok("unit"), links |-> renamed,
                        files |-> Referenced(written, renamed, <<>>)]

(***************************************************************************)
(* manifest.rs: validate_manifest and load_manifest.                       *)
(***************************************************************************)
\* validate_os_family
validate_os_family(os) ==
    IF os \in {"windows", "macos"} THEN Ok("unit")
    ELSE Err("unsupported platform '" \o os \o "' in manifest")

\* Step::validate
StepValidate(step) ==
    IF step.kind = "run" /\ Trim(step.run) = ""
    THEN Err("run command cannot be empty")
    ELSE Ok("unit")

\* The first error of a sequence of checks, as the `?` and `return Err` of a loop
\* leave it; Ok when every check passed.
FirstError(checks) ==
    IF \E i \in 1..Len(checks) : ~checks[i].ok
    THEN checks[CHOOSE i \in 1..Len(checks) :
                    ~checks[i].ok /\ \A j \in 1..(i - 1) : checks[j].ok]
    ELSE Ok("unit")

RECURSIVE Flatten(_)
Flatten(seqs) == IF seqs = <<>> THEN <<>> ELSE seqs[1] \o Flatten(Tail(seqs))

\* The checks validate_manifest makes on the steps of one platform of a mode.
PlatformChecks(mode_name, platform, steps) ==
    <<IF steps = <<>>
      THEN Err("mode '" \o mode_name \o "' has no steps for platform '" \o platform \o "'")
      ELSE Ok("unit"),
      validate_os_family(platform)>>
        \o [i \in 1..Len(steps) |->
              IF StepValidate(steps[i]).ok THEN Ok("unit")
              ELSE Err("mode '" \o mode_name \o "' has an invalid step: "
                           \o StepValidate(steps[i]).err)]

\* The checks validate_manifest makes on one mode, in the order it makes them.
ModeChecks(mode_name, mode) ==
    LET platforms == SortedKeys(DOMAIN mode.steps)
        requirements == mode.requirements.val
    IN <<IF DOMAIN mode.steps = {}
         THEN Err("mode '" \o mode_name \o "' has no steps defined for any platform")
         ELSE Ok("unit")>>
           \o (IF mode.requirements.some
               THEN [i \in 1..Len(requirements.os) |->
                        validate_os_family(requirements.os[i].family)]
                    \o [i \in 1..Len(requirements.cpu_arch) |->
                          IF Trim(requirements.cpu_arch[i]) = ""
                          THEN Err("mode '" \o mode_name
                                       \o "' has an invalid requirement: cpu_arch entries must not be empty")
                          ELSE Ok("unit")]
               ELSE <<>>)
           \o Flatten([i \in 1..Len(platforms) |->
                          PlatformChecks(mode_name, platforms[i], mode.steps[platforms[i]])])

\* validate_manifest with a mode without any platform let through.
validate_manifest_modes_unchecked(m) ==
    FirstError(<<IF Trim(m.name) = "" THEN Err("manifest missing required field: name")
                 ELSE Ok("unit"),
                 IF Trim(m.version) = "" THEN Err("manifest missing required field: version")
                 ELSE Ok("unit"),
                 IF DOMAIN m.modes = {} THEN Err("manifest has no modes defined")
                 ELSE Ok("unit")>>)

\* validate_manifest: the first error in the order of the checks, or Ok.
validate_manifest(m) ==
    LET names == SortedKeys(DOMAIN m.modes)
    IN FirstError(<<IF Trim(m.name) = "" THEN Err("manifest missing required field: name")
                    ELSE Ok("unit"),
                    IF Trim(m.version) = "" THEN Err("manifest missing required field: version")
                    ELSE Ok("unit"),
                    IF DOMAIN m.modes = {} THEN Err("manifest has no modes defined")
                    ELSE Ok("unit")>>
                      \o Flatten([i \in 1..Len(names) |-> ModeChecks(names[i], m.modes[names[i]])]))

\* load_manifest with the validation left out.
load_manifest_unvalidated(readable, m) ==
    IF ~readable THEN Err("parsing manifest") ELSE Ok(m)

\* load_manifest: the file read and parsed (readable, giving m), then validated.
load_manifest(readable, m) ==
    IF ~readable THEN Err("parsing manifest")
    ELSE IF validate_manifest(m).ok THEN Ok(m)
    ELSE Err("validating manifest: " \o validate_manifest(m).err)

(***************************************************************************)
(* The inputs of the planner: manifests and environments.                  *)
(***************************************************************************)
\* The mode names of the planner's manifests: "full", a name that differs from it only
\* in case, and another name. In the map's iteration order: "Full", "full", "pro".
ModeNames == {"Full", "full", "pro"}

Requirements(os, cpu_arch, ram_gb) == [os |-> os, cpu_arch |-> cpu_arch, ram_gb |-> ram_gb]

Mode(requirements, steps) == [requirements |-> requirements, steps |-> steps]

\* The requirements a mode of the planner's manifests may declare.
PlanRequirements ==
    {None}
    \cup {Some(Requirements(<<>>, <<>>, Some(r))) : r \in 1..MaxRam}
    \cup {Some(Requirements(<<OsConstraint("windows", Some("10"))>>, <<>>, None)),
          Some(Requirements(<<>>, <<"X64">>, None))}

\* The step maps a mode of the planner's manifests may declare.
PlanStepMaps ==
    {[p \in {"windows"} |-> <<RunStep("setup.exe"), RunStep("echo ok")>>],
     [p \in {"windows", "macos"} |->
         IF p = "windows" THEN <<RunStep("setup.exe"), RunStep("echo ok")>>
         ELSE <<RunStep("brew install demo")>>]}

PlanModes == {Mode(r, s) : r \in PlanRequirements, s \in PlanStepMaps}

\* Every manifest over those names and modes, the one without modes included:
\* plan_install is public and takes any Manifest value.
PlanManifests ==
    UNION {{[name |-> "demo", version |-> "1.0.0", modes |-> f] : f \in [S -> PlanModes]} :
               S \in SUBSET ModeNames}

Environment(os, os_version, cpu_arch, ram_gb) ==
    [os |-> os, os_version |-> os_version, cpu_arch |-> cpu_arch, ram_gb |-> ram_gb,
     pkg_managers |-> <<>>, fingerprint |-> None]

PlanEnvironments ==
    {Environment(os, v, a, r) :
        os \in {"windows", "macos", "linux"}, v \in {"10.0", "9.9"},
        a \in {"x64", "arm64"}, r \in 0..MaxRam}

(***************************************************************************)
(* The planner alone: plan_install applied to a manifest and an            *)
(* environment.                                                            *)
(***************************************************************************)
NoResult == [kind |-> "none"]

\* No version comparison is part of an install run's own state.
VersionIdle == versions = <<>> /\ verdict = NoResult

\* handle_install has returned nothing and recorded nothing.
CliIdle == exitCode = None /\ reportedIndex = None /\ appendCalls = <<>>

\* No Extract step is under way.
ExtractIdle ==
    /\ fsNodes = <<>>
    /\ extractStep = NoResult
    /\ entryIdx = 0
    /\ extractResult = NoResult
    /\ created = <<>>

\* No template is being rendered.
TemplateIdle == templateStep = NoResult /\ rendered = NoResult

\* The history store as no call has touched it.
StoreIdle ==
    /\ files = <<>>
    /\ links = [path \in Paths |-> 0]
    /\ appendPc = <<>>
    /\ appendState = <<>>
    /\ appendFd = <<>>
    /\ crashed = {}
    /\ loaded = NoResult
    /\ before = <<>>
    /\ log = <<>>
    /\ latest = 0

InitPlan ==
    /\ manifest \in PlanManifests
    /\ env \in PlanEnvironments
    /\ pc = "plan"
    /\ planResult = NoResult
    /\ idx = 0
    /\ attempted = <<>>
    /\ effects = <<>>
    /\ execResult = NoResult
    /\ VersionIdle
    /\ StoreIdle
    /\ CliIdle
    /\ ExtractIdle
    /\ TemplateIdle

PlanInstall ==
    /\ pc = "plan"
    /\ planResult' = plan_install(manifest, env)
    /\ pc' = IF planResult'.ok THEN "exec"
             ELSE IF planResult'.err.kind = "Panic" THEN "panicked"
             ELSE "exit"
    /\ exitCode' = IF planResult'.ok \/ planResult'.err.kind = "Panic" THEN exitCode
                   ELSE Some(2)
    /\ UNCHANGED <<manifest, env, idx, attempted, effects, execResult, versionVars, storeVars>>
    /\ UNCHANGED <<reportedIndex, appendCalls, extractVars, templateVars>>

NextPlan == PlanInstall

SpecPlan == InitPlan /\ [][NextPlan]_vars

(***************************************************************************)
(* The planner on one mode: plan_install applied to a manifest whose only  *)
(* mode, "pro", declares requirements as the manifest file spells them,    *)
(* and to an environment as detect_environment names it.                   *)
(***************************************************************************)
\* The requirements.os lists of a manifest file, entry by entry as written.
RawOsLists ==
    {<<>>,
     <<"Windows>=10">>,
     <<"macos">>,
     <<"macOS", " windows >= 10.0.1 ">>,
     <<"linux>=11", "WINDOWS>=9.9">>}

\* The lists deserialization makes of them: parse_os_constraint on every entry.
ParsedOsList(raw_list) == [i \in 1..Len(raw_list) |-> parse_os_constraint(raw_list[i]).val]

ModeCpuLists == {<<>>, <<"X64">>, <<"arm64", "x86">>}

ModeRequirements ==
    {None}
    \cup {Some(Requirements(ParsedOsList(os), cpu, ram)) :
              os \in RawOsLists, cpu \in ModeCpuLists,
              ram \in {None} \cup {Some(r) : r \in 1..MaxRam}}

ModeManifests ==
    {[name |-> "demo", version |-> "1.0.0", modes |-> [n \in {"pro"} |-> Mode(r, s)]] :
        r \in ModeRequirements, s \in PlanStepMaps}

ModeEnvironments ==
    {Environment(normalize_os(os), v, normalize_arch(a), r) :
        os \in {"windows", "macos", "linux"}, v \in {"10.0", "9.9", "10.0.1"},
        a \in {"x86_64", "aarch64"}, r \in 0..MaxRam}

InitMode ==
    /\ manifest \in ModeManifests
    /\ env \in ModeEnvironments
    /\ pc = "plan"
    /\ planResult = NoResult
    /\ idx = 0
    /\ attempted = <<>>
    /\ effects = <<>>
    /\ execResult = NoResult
    /\ VersionIdle
    /\ StoreIdle
    /\ CliIdle
    /\ ExtractIdle
    /\ TemplateIdle

SpecMode == InitMode /\ [][NextPlan]_vars

(***************************************************************************)
(* The version comparison alone: parse_version, compare_versions and       *)
(* version_meets applied to three version strings.                         *)
(***************************************************************************)
MaxSegments == 2

\* Dotted versions of up to n segments over the segments "0" and "10".
RECURSIVE DottedVersions(_)
DottedVersions(n) ==
    IF n = 1 THEN {"0", "10"}
    ELSE DottedVersions(n - 1)
         \cup {v \o "." \o seg : v \in DottedVersions(n - 1), seg \in {"0", "10"}}

\* The version strings compared: the dotted ones, the versions the manifest examples
\* use, spellings that parse to the same numbers, and strings parse_version rejects.
VersionStrings ==
    DottedVersions(MaxSegments)
    \cup {"10.0.1", "10.0.0", "10", "9.9", "010.0", "+9. 9"}
    \cup {"abc", "10.x", "", "10.", "18446744073709551616"}

\* No install run is under way.
RunIdle ==
    /\ manifest = [name |-> "", version |-> "", modes |-> <<>>]
    /\ env = Environment("", "", "", 0)
    /\ planResult = NoResult
    /\ idx = 0
    /\ attempted = <<>>
    /\ effects = <<>>
    /\ execResult = NoResult

InitVersion ==
    /\ RunIdle
    /\ pc = "compare"
    /\ StoreIdle
    /\ CliIdle
    /\ ExtractIdle
    /\ TemplateIdle
    /\ versions \in [1..3 -> VersionStrings]
    /\ verdict = NoResult

\* What the three functions answer on the strings, pair by pair:
\* order[i][j] is compare_versions on versions i and j where both parse,
\* meets[i][j] is version_meets(min_version = versions[i], actual = versions[j]).
CompareVersions ==
    /\ pc = "compare"
    /\ LET parsed == [i \in 1..3 |-> parse_version(versions[i])]
       IN verdict' =
              [parsed |-> parsed,
               order |-> [i \in 1..3 |-> [j \in 1..3 |->
                            IF parsed[i].some /\ parsed[j].some
                            THEN Some(compare_versions(parsed[i].val, parsed[j].val))
                            ELSE None]],
               meets |-> [i \in 1..3 |-> [j \in 1..3 |->
                            version_meets(versions[i], versions[j])]]]
    /\ pc' = "exit"
    /\ UNCHANGED <<manifest, env, planResult, idx, attempted, effects, execResult, versions, storeVars>>
    /\ UNCHANGED <<cliVars, extractVars, templateVars>>

NextVersion == CompareVersions

SpecVersion == InitVersion /\ [][NextVersion]_vars

(***************************************************************************)
(* The history store: add_install_record calls and load_state calls on one *)
(* state directory. Every call is a process of its own.                    *)
(***************************************************************************)
MaxAppends == 3
MaxProcs == 2

\* The store before any call, for the given callers of add_install_record.
StoreStart(callers) ==
    /\ files = <<>>
    /\ links = [path \in Paths |-> 0]
    /\ appendPc = [p \in callers |-> "idle"]
    /\ appendState = [p \in callers |-> <<>>]
    /\ appendFd = [p \in callers |-> 0]
    /\ crashed = {}
    /\ loaded = NoResult
    /\ before = [p \in callers |-> None]
    /\ log = <<>>
    /\ latest = 0

Callers == DOMAIN appendPc

Running(p) == appendPc[p] \in {"load", "create", "write", "rename"} /\ p \notin crashed

\* The real file as the directory shows it: None without entry, else its content.
RealFile == IF links[StatePath] = 0 THEN None ELSE Some(files[links[StatePath]])

\* A process enters add_install_record.
StartAppend(p) ==
    /\ appendPc[p] = "idle"
    /\ appendPc' = [appendPc EXCEPT ![p] = "load"]
    /\ before' = [before EXCEPT ![p] = RealFile]
    /\ latest' = p
    /\ UNCHANGED <<files, links, appendState, appendFd, crashed, loaded, log>>
    /\ UNCHANGED <<runVars, versionVars, cliVars, extractVars, templateVars>>

\* load_state and push, state.rs 62-63.
LoadForAppend(p) ==
    /\ Running(p) /\ appendPc[p] = "load"
    /\ LET res == load_state(links, files)
       IN IF res.ok
          THEN /\ appendState' = [appendState EXCEPT
                                     ![p] = PushRecord(res.val.installs, InstallRecord(p))]
               /\ appendPc' = [appendPc EXCEPT ![p] = "create"]
          ELSE /\ appendPc' = [appendPc EXCEPT ![p] = "err"]
               /\ UNCHANGED appendState
    /\ UNCHANGED <<files, links, appendFd, crashed, loaded, before, log, latest>>
    /\ UNCHANGED <<runVars, versionVars, cliVars, extractVars, templateVars>>

\* fs::write, its File::create: the temporary path is opened, created if it has no
\* entry and truncated if it has one.
CreateTemp(p) ==
    /\ Running(p) /\ appendPc[p] = "create"
    /\ IF links[TmpPath] # 0
       THEN /\ files' = [files EXCEPT ![links[TmpPath]] = <<>>]
            /\ appendFd' = [appendFd EXCEPT ![p] = links[TmpPath]]
            /\ UNCHANGED links
       ELSE /\ files' = [i \in DOMAIN files \cup {p} |-> IF i = p THEN <<>> ELSE files[i]]
            /\ links' = [links EXCEPT ![TmpPath] = p]
            /\ appendFd' = [appendFd EXCEPT ![p] = p]
    /\ appendPc' = [appendPc EXCEPT ![p] = "write"]
    /\ UNCHANGED <<appendState, crashed, loaded, before, log, latest>>
    /\ UNCHANGED <<runVars, versionVars, cliVars, extractVars, templateVars>>

\* fs::write, its write_all: the whole text reaches the open file.
WriteTemp(p) ==
    /\ Running(p) /\ appendPc[p] = "write"
    /\ LET written == [files EXCEPT
                          ![appendFd[p]] = Overlay(@, Serialize(State(appendState[p])))]
           closed == [appendFd EXCEPT ![p] = 0]
       IN /\ files' = Referenced(written, links, closed)
          /\ appendFd' = closed
    /\ appendPc' = [appendPc EXCEPT ![p] = "rename"]
    /\ UNCHANGED <<links, appendState, crashed, loaded, before, log, latest>>
    /\ UNCHANGED <<runVars, versionVars, cliVars, extractVars, templateVars>>

\* fs::write, its write_all failing: part of the text reached the file, save_state
\* returns the error.
WriteTempFails(p) ==
    /\ Running(p) /\ appendPc[p] = "write"
    /\ \E k \in 0..(Len(appendState[p]) + 1) :
          LET data == Serialize(State(appendState[p]))
              written == [files EXCEPT ![appendFd[p]] = Overlay(@, SubSeq(data, 1, k))]
              closed == [appendFd EXCEPT ![p] = 0]
          IN /\ files' = Referenced(written, links, closed)
             /\ appendFd' = closed
    /\ appendPc' = [appendPc EXCEPT ![p] = "err"]
    /\ UNCHANGED <<links, appendState, crashed, loaded, before, log, latest>>
    /\ UNCHANGED <<runVars, versionVars, cliVars, extractVars, templateVars>>

\* fs::rename of the temporary path over the real one; without an entry for the
\* temporary path it fails and save_state returns the error.
RenameTemp(p) ==
    /\ Running(p) /\ appendPc[p] = "rename"
    /\ IF links[TmpPath] = 0
       THEN /\ appendPc' = [appendPc EXCEPT ![p] = "err"]
            /\ UNCHANGED <<files, links, log>>
       ELSE /\ links' = Rename(links, TmpPath, StatePath)
            /\ files' = Referenced(files, links', appendFd)
            /\ appendPc' = [appendPc EXCEPT ![p] = "ok"]
            /\ log' = Append(log, InstallRecord(p))
    /\ UNCHANGED <<appendState, appendFd, crashed, loaded, before, latest>>
    /\ UNCHANGED <<runVars, versionVars, cliVars, extractVars, templateVars>>

\* The process of a call is killed where it stands; its open file is closed.
Crash(p) ==
    /\ Running(p)
    /\ crashed' = crashed \cup {p}
    /\ appendFd' = [appendFd EXCEPT ![p] = 0]
    /\ files' = Referenced(files, links, appendFd')
    /\ UNCHANGED <<links, appendPc, appendState, loaded, before, log, latest>>
    /\ UNCHANGED <<runVars, versionVars, cliVars, extractVars, templateVars>>

\* load_state called by a reader, state.rs 32-43.
Load ==
    /\ loaded' = [found |-> links[StatePath] # 0, result |-> load_state(links, files)]
    /\ UNCHANGED <<files, links, appendPc, appendState, appendFd, crashed, before, log, latest>>
    /\ UNCHANGED <<runVars, versionVars, cliVars, extractVars, templateVars>>

\* Calls one after another: a call starts when no other is running.
InitSerial ==
    /\ RunIdle
    /\ pc = "store"
    /\ VersionIdle
    /\ StoreStart(1..MaxAppends)
    /\ CliIdle
    /\ ExtractIdle
    /\ TemplateIdle

StartAppendSerial(p) ==
    /\ \A q \in Callers : ~Running(q)
    /\ StartAppend(p)

NextSerial ==
    \/ \E p \in Callers : StartAppendSerial(p)
    \/ \E p \in Callers : LoadForAppend(p)
    \/ \E p \in Callers : CreateTemp(p)
    \/ \E p \in Callers : WriteTemp(p)
    \/ \E p \in Callers : WriteTempFails(p)
    \/ \E p \in Callers : RenameTemp(p)
    \/ \E p \in Callers : Crash(p)
    \/ Load

SpecSerial == InitSerial /\ [][NextSerial]_vars

\* Calls from independent processes, in any interleaving.
InitStore ==
    /\ RunIdle
    /\ pc = "store"
    /\ VersionIdle
    /\ StoreStart(1..MaxProcs)
    /\ CliIdle
    /\ ExtractIdle
    /\ TemplateIdle

NextStore ==
    \/ \E p \in Callers : StartAppend(p)
    \/ \E p \in Callers : LoadForAppend(p)
    \/ \E p \in Callers : CreateTemp(p)
    \/ \E p \in Callers : WriteTemp(p)
    \/ \E p \in Callers : WriteTempFails(p)
    \/ \E p \in Callers : RenameTemp(p)
    \/ \E p \in Callers : Crash(p)
    \/ Load

SpecStore == InitStore /\ [][NextStore]_vars

(***************************************************************************)
(* The install run: plan_install, then execute_plan over the plan.         *)
(***************************************************************************)
\* The steps a manifest of a run is made of, one of each kind.
RunSteps ==
    {RunStep("setup.exe"),
     DownloadStep("http://h/a.zip", "a.zip"),
     ExtractStep("a.zip", "app"),
     TemplateConfigStep("app.tpl", "app.conf")}

RECURSIVE SeqsUpTo(_, _)
SeqsUpTo(S, n) ==
    IF n = 0 THEN {<<>>}
    ELSE LET shorter == SeqsUpTo(S, n - 1)
         IN shorter \cup {Append(q, x) : q \in {r \in shorter : Len(r) = n - 1}, x \in S}

\* Manifests of one mode with 0..MaxSteps steps for windows; a Manifest value with
\* an empty step sequence gives execute_plan its empty plan.
RunManifests ==
    {[name |-> "demo", version |-> "1.0.0",
      modes |-> [n \in {"pro"} |-> Mode(None, [p \in {"windows"} |-> steps])]] :
        steps \in SeqsUpTo(RunSteps, MaxSteps)}

RunEnvironments ==
    {Environment(os, "10.0", "x64", MaxRam) : os \in {"windows", "macos"}}

Init ==
    /\ manifest \in RunManifests
    /\ env \in RunEnvironments
    /\ pc = "plan"
    /\ planResult = NoResult
    /\ idx = 0
    /\ attempted = <<>>
    /\ effects = <<>>
    /\ execResult = NoResult
    /\ VersionIdle
    /\ StoreIdle
    /\ CliIdle
    /\ ExtractIdle
    /\ TemplateIdle

\* EffectsAfter with the applied steps rolled back when a step fails.
EffectsAfterRollback(applied, i, res) ==
    IF res.ok THEN Append(applied, i) ELSE <<>>

\* The side effects applied once execute_step has returned res for the step at
\* position i: a successful step has applied its own, a failed step applies none
\* and nothing is undone.
EffectsAfter(applied, i, res) ==
    IF res.ok THEN Append(applied, i) ELSE applied

\* LoopAfter with the loop going on to the next step after an error.
LoopAfterMovesOn(i, res) ==
    IF res.ok THEN [pc |-> "exec", idx |-> i + 1, execResult |-> NoResult]
    ELSE [pc |-> "exec", idx |-> i + 1, execResult |-> Err(PlanError(i, res.err))]

\* The loop of execute_plan after execute_step has returned res at index i: an
\* error is returned at once, a success moves the loop to the next step.
LoopAfter(i, res) ==
    IF res.ok THEN [pc |-> "exec", idx |-> i + 1, execResult |-> NoResult]
    ELSE [pc |-> "executed", idx |-> i, execResult |-> Err(PlanError(i, res.err))]

\* One iteration of the loop of execute_plan: the step at idx is handed to
\* execute_step; an error ends execute_plan, a success moves to the next step.
ExecuteStep ==
    /\ pc = "exec"
    /\ idx < Len(planResult.val.steps)
    /\ LET plan == planResult.val
           planned == plan.steps[idx + 1]
       IN \E outcome \in StepOutcomes(planned.step) :
            LET res == execute_step(plan.os, planned, outcome)
                after == LoopAfter(idx, res)
            IN /\ attempted' = Append(attempted, idx)
               /\ effects' = EffectsAfter(effects, idx, res)
               /\ pc' = after.pc
               /\ idx' = after.idx
               /\ execResult' = IF after.execResult = NoResult THEN execResult
                                ELSE after.execResult
    /\ UNCHANGED <<manifest, env, planResult, versionVars, storeVars>>
    /\ UNCHANGED <<cliVars, extractVars, templateVars>>

\* The loop of execute_plan has run out of steps: execute_plan returns Ok.
ExecuteDone ==
    /\ pc = "exec"
    /\ idx = Len(planResult.val.steps)
    /\ execResult' = Ok(ExecutionResult(Len(planResult.val.steps), Len(planResult.val.steps)))
    /\ pc' = "executed"
    /\ UNCHANGED <<manifest, env, planResult, idx, attempted, effects, versionVars, storeVars>>
    /\ UNCHANGED <<cliVars, extractVars, templateVars>>

Next ==
    \/ PlanInstall
    \/ ExecuteStep
    \/ ExecuteDone

Spec == Init /\ [][Next]_vars

(***************************************************************************)
(* cli.rs: handle_install from the manifest file to the exit code.         *)
(***************************************************************************)
\* The manifests a manifest file may hold: those of the runs, and one without a name.
InstallManifests ==
    RunManifests
    \cup {[name |-> "", version |-> "1.0.0",
           modes |-> [n \in {"pro"} |->
                        Mode(None, [p \in {"windows"} |-> <<RunStep("setup.exe")>>])]]}

\* The history file a run finds: none, one with the record of an earlier run, one
\* whose text stops short.
HistoryFiles ==
    {<<>>,
     <<Serialize(State(<<InstallRecord(0)>>))>>,
     <<<<OpenToken>>>>}

InitInstall ==
    /\ manifest \in InstallManifests
    /\ env \in RunEnvironments
    /\ pc = "load_manifest"
    /\ planResult = NoResult
    /\ idx = 0
    /\ attempted = <<>>
    /\ effects = <<>>
    /\ execResult = NoResult
    /\ VersionIdle
    /\ files \in HistoryFiles
    /\ links = [path \in Paths |-> IF path = StatePath THEN Len(files) ELSE 0]
    /\ appendPc = <<>>
    /\ appendState = <<>>
    /\ appendFd = <<>>
    /\ crashed = {}
    /\ loaded = NoResult
    /\ before = <<>>
    /\ log = <<>>
    /\ latest = 0
    /\ CliIdle
    /\ ExtractIdle
    /\ TemplateIdle

\* load_manifest of handle_install, cli.rs 231-237: an error ends the run with 1.
LoadManifest ==
    /\ pc = "load_manifest"
    /\ \E readable \in BOOLEAN :
          LET res == load_manifest(readable, manifest)
          IN /\ pc' = IF res.ok THEN "detect" ELSE "exit"
             /\ exitCode' = IF res.ok THEN exitCode ELSE Some(1)
    /\ UNCHANGED <<manifest, env, planResult, idx, attempted, effects, execResult>>
    /\ UNCHANGED <<reportedIndex, appendCalls, versionVars, storeVars, extractVars, templateVars>>

\* detect_environment of handle_install, cli.rs 239-245: env_detect.rs 31-54 returns
\* Ok on every path, with the Environment of the machine.
DetectEnvironment ==
    /\ pc = "detect"
    /\ pc' = "plan"
    /\ UNCHANGED <<manifest, env, planResult, idx, attempted, effects, execResult>>
    /\ UNCHANGED <<cliVars, versionVars, storeVars, extractVars, templateVars>>

\* InstallStatus of the record, by the arm of the match on execute_plan.
RecordStatusAlwaysSuccess(res) == "success"

RecordStatus(res) == IF res.ok THEN "success" ELSE "failed"

\* The InstallRecord handle_install builds, cli.rs 289-297 and 316-324.
RunRecord(m, plan, e, res) ==
    [app_name |-> m.name, app_version |-> m.version, mode |-> plan.chosen_mode,
     os |-> e.os, cpu_arch |-> e.cpu_arch, timestamp |-> 1, status |-> RecordStatus(res)]

\* ExitAfterRecord with a failed add_install_record turned into the outcome.
ExitAfterRecordEscalates(res, appended) ==
    IF ~appended.ok THEN 1 ELSE IF res.ok THEN 0 ELSE 3

\* The value handle_install returns after `let _ = add_install_record(record)`.
ExitAfterRecord(res, appended) == IF res.ok THEN 0 ELSE 3

\* The arms of the match on execute_plan, cli.rs 287-331: the record is built and
\* handed to add_install_record, whose answer is dropped; the outcome is emitted
\* and returned.
RecordInstall ==
    /\ pc = "executed"
    /\ LET record == RunRecord(manifest, planResult.val, env, execResult)
           data == AppendData(links, files, record)
       IN \E io \in AppendOutcomes(data) :
            LET res == add_install_record(links, files, record, io)
            IN /\ files' = res.files
               /\ links' = res.links
               /\ appendCalls' = Append(appendCalls, [record |-> record, result |-> res.result,
                                                     found |-> RealFile, io |-> io])
               /\ exitCode' = Some(ExitAfterRecord(execResult, res.result))
    /\ reportedIndex' = IF ~execResult.ok /\ execResult.err.kind = "StepFailed"
                        THEN Some(execResult.err.index) ELSE None
    /\ pc' = "exit"
    /\ UNCHANGED <<manifest, env, planResult, idx, attempted, effects, execResult>>
    /\ UNCHANGED <<appendPc, appendState, appendFd, crashed, loaded, before, log, latest>>
    /\ UNCHANGED <<versionVars, extractVars, templateVars>>

NextInstall ==
    \/ LoadManifest
    \/ DetectEnvironment
    \/ PlanInstall
    \/ ExecuteStep
    \/ ExecuteDone
    \/ RecordInstall

SpecInstall == InitInstall /\ [][NextInstall]_vars

(***************************************************************************)
(* load_manifest alone, on manifest files of every kind.                   *)
(***************************************************************************)
\* The requirements a mode of a manifest file may declare: none, supported and
\* unsupported OS families, named and empty CPU architectures.
FileRequirements ==
    {None,
     Some(Requirements(ParsedOsList(<<"Windows>=10", "macos">>), <<"x64">>, Some(1))),
     Some(Requirements(ParsedOsList(<<"windows", "Linux">>), <<>>, None)),
     Some(Requirements(<<>>, <<"x64", " ">>, None))}

\* The step maps a mode of a manifest file may declare: no platform, platforms with
\* and without steps, an unsupported platform, a Run step without command.
FileStepMaps ==
    {<<>>,
     [p \in {"windows"} |-> <<RunStep("setup.exe")>>],
     [p \in {"windows"} |-> <<>>],
     [p \in {"linux"} |-> <<RunStep("make install")>>],
     [p \in {"windows"} |-> <<RunStep("setup.exe"), RunStep(" ")>>],
     [p \in {"windows", "macos"} |->
         IF p = "windows" THEN <<RunStep("setup.exe")>> ELSE <<>>],
     [p \in {"windows", "macos"} |->
         IF p = "windows" THEN <<DownloadStep("http://h/a.zip", "a.zip")>>
         ELSE <<RunStep("brew install demo"), RunStep("echo ok")>>]}

FileModes == {Mode(r, st) : r \in FileRequirements, st \in FileStepMaps}

FileManifests ==
    UNION {{[name |-> name, version |-> version, modes |-> f] :
                name \in {"demo", "", " "}, version \in {"1.0.0", ""},
                f \in [S -> FileModes]} :
               S \in SUBSET {"lite", "pro"}}

InitManifest ==
    /\ manifest \in FileManifests
    /\ env \in {Environment("windows", "10.0", "x64", MaxRam)}
    /\ pc = "load_manifest"
    /\ planResult = NoResult
    /\ idx = 0
    /\ attempted = <<>>
    /\ effects = <<>>
    /\ execResult = NoResult
    /\ VersionIdle
    /\ StoreIdle
    /\ CliIdle
    /\ ExtractIdle
    /\ TemplateIdle

NextManifest == LoadManifest

SpecManifest == InitManifest /\ [][NextManifest]_vars

(***************************************************************************)
(* perform_extract alone: one Extract step on a file system that holds the *)
(* working directory /home and a directory /outside.                       *)
(***************************************************************************)
MaxEntries == 2

\* The destination of the step, relative to the working directory and as the
\* absolute canonical path of the same directory.
ExtractDests == {PathBufFrom("app"), PathBufFrom("/home/app")}

DestRoot == <<"home", "app">>

BaseNodes == {<<"home">>, <<"outside">>}

TreeNodes == {<<"home", "app">>, <<"home", "app", "sub">>, <<"home", "app", "sub", "dir">>}

\* The file systems the step starts on: without the destination, with it, with a link
\* in it that leads outside (to a directory without and with the file), and with the
\* file of an entry already there.
ExtractFileSystems ==
    LET Dirs(S) == [q \in S |-> DirNode]
        destOnly == Dirs(BaseNodes \cup {DestRoot})
        linked == Put(destOnly, <<"home", "app", "link">>, LinkNode(<<"outside">>))
    IN {Dirs(BaseNodes),
        destOnly,
        linked,
        Put(linked, <<"outside", "evil.txt">>, FileNode),
        Put(Dirs(BaseNodes \cup TreeNodes),
            <<"home", "app", "sub", "dir", "file.txt">>, FileNode)}

\* The names of the entries of an archive.
EntryNames ==
    {"sub/dir/file.txt", "ok.txt", "docs/", "../escape.txt", "a/../../b", "/etc/passwd",
     "link/evil.txt"}

InitExtract ==
    /\ RunIdle
    /\ pc = "extract"
    /\ VersionIdle
    /\ StoreIdle
    /\ CliIdle
    /\ TemplateIdle
    /\ fsNodes \in ExtractFileSystems
    /\ extractStep \in [dest : ExtractDests, entries : SeqsUpTo(EntryNames, MaxEntries)]
    /\ entryIdx = 0
    /\ extractResult = NoResult
    /\ created = <<>>

\* perform_extract up to the loop: the destination and its parents, then the archive.
BeginExtract ==
    /\ pc = "extract"
    /\ \E readable \in BOOLEAN :
         LET parent == Parent(extractStep.dest)
             above == IF parent.some THEN create_dir_all(fsNodes, parent.val)
                      ELSE [ok |-> TRUE, fs |-> fsNodes, made |-> {}]
             dest == IF above.ok THEN create_dir_all(above.fs, extractStep.dest) ELSE above
         IN /\ fsNodes' = dest.fs
            /\ IF ~dest.ok
               THEN extractResult' = IoError("create_dir_all") /\ pc' = "exit"
               ELSE IF ~readable
               THEN extractResult' = IoError("opening archive") /\ pc' = "exit"
               ELSE extractResult' = extractResult /\ pc' = "extract_entry"
    /\ UNCHANGED <<manifest, env, planResult, idx, attempted, effects, execResult>>
    /\ UNCHANGED <<extractStep, entryIdx, created>>
    /\ UNCHANGED <<versionVars, storeVars, cliVars, templateVars>>

\* One turn of the loop, for the entry at index entryIdx.
ExtractEntry ==
    /\ pc = "extract_entry"
    /\ entryIdx < Len(extractStep.entries)
    /\ LET name == extractStep.entries[entryIdx + 1]
           outpath == sanitize_extract_path(fsNodes, extractStep.dest, name)
       IN IF ~outpath.ok
          THEN /\ extractResult' = outpath.err
               /\ pc' = "exit"
               /\ UNCHANGED <<fsNodes, entryIdx, created>>
          ELSE LET done == ExtractTo(fsNodes, outpath.val, IsDir(name))
               IN /\ fsNodes' = done.fs
                  /\ created' = Append(created, [index |-> entryIdx, name |-> name,
                                                 made |-> done.made, wrote |-> done.wrote])
                  /\ IF done.ok
                     THEN /\ entryIdx' = entryIdx + 1
                          /\ UNCHANGED <<pc, extractResult>>
                     ELSE /\ extractResult' = IoError("writing entry")
                          /\ pc' = "exit"
                          /\ entryIdx' = entryIdx
    /\ UNCHANGED <<manifest, env, planResult, idx, attempted, effects, execResult>>
    /\ UNCHANGED <<extractStep, versionVars, storeVars, cliVars, templateVars>>

\* The loop has run over every entry: Ok(())
ExtractDone ==
    /\ pc = "extract_entry"
    /\ entryIdx = Len(extractStep.entries)
    /\ extractResult' = Extracted
    /\ pc' = "exit"
    /\ UNCHANGED <<manifest, env, planResult, idx, attempted, effects, execResult>>
    /\ UNCHANGED <<fsNodes, extractStep, entryIdx, created>>
    /\ UNCHANGED <<versionVars, storeVars, cliVars, templateVars>>

NextExtract == BeginExtract \/ ExtractEntry \/ ExtractDone

SpecExtract == InitExtract /\ [][NextExtract]_vars

(***************************************************************************)
(* replace_placeholders alone, on templates put together from parts.       *)
(***************************************************************************)
MaxParts == 3

\* The parts a template is put together from: text without an opening "{{", and
\* placeholders with and without blanks around the key.
TextPart(text) == [kind |-> "text", raw |-> text]

PlaceholderPart(key, pad) ==
    [kind |-> "placeholder", raw |-> "{{" \o pad \o key \o pad \o "}}", key |-> key]

TemplateParts ==
    {TextPart("Host: "), TextPart(", Port: "), TextPart("}} { x }"), TextPart("}"),
     PlaceholderPart("host", " "), PlaceholderPart("host", ""),
     PlaceholderPart("port", ""), PlaceholderPart("", " ")}

\* Text that ends in a "{{" nothing closes.
OpenTail == TextPart(" {{ host")

RECURSIVE JoinRaw(_)
JoinRaw(parts) == IF parts = <<>> THEN "" ELSE parts[1].raw \o JoinRaw(Tail(parts))

\* Templates of up to MaxParts parts, with and without the open tail, and the
\* template of the example.
TemplatePartLists ==
    LET lists == SeqsUpTo(TemplateParts, MaxParts)
    IN lists
       \cup {Append(parts, OpenTail) : parts \in lists}
       \cup {<<TextPart("Host: "), PlaceholderPart("host", " "),
               TextPart(", Port: "), PlaceholderPart("port", "")>>}

\* Templates where a "{{" opens before another one is closed.
NestedTemplates == {"{{ a {{ host }}", "{{{host}}}", "{{host}{{host}}"}

\* The vars of a step: none, one key, a value that reads like a placeholder, the
\* empty key.
TemplateVars ==
    {<<>>,
     [k \in {"host"} |-> "example.com"],
     [k \in {"host", "port"} |-> IF k = "host" THEN "{{port}}" ELSE "80"],
     [k \in {"", "port"} |-> IF k = "" THEN "none" ELSE "80"]}

InitTemplate ==
    /\ RunIdle
    /\ pc = "render"
    /\ VersionIdle
    /\ StoreIdle
    /\ CliIdle
    /\ ExtractIdle
    /\ templateStep \in
          {[source |-> JoinRaw(parts), vars |-> v, parts |-> parts] :
               parts \in TemplatePartLists, v \in TemplateVars}
          \cup {[source |-> text, vars |-> v, parts |-> <<TextPart(text)>>] :
                    text \in NestedTemplates, v \in TemplateVars}
    /\ rendered = NoResult

\* replace_placeholders(&source, &step.vars), executor.rs 196.
Render ==
    /\ pc = "render"
    /\ rendered' = Some(replace_placeholders(templateStep.source, templateStep.vars))
    /\ pc' = "exit"
    /\ UNCHANGED <<manifest, env, planResult, idx, attempted, effects, execResult>>
    /\ UNCHANGED <<templateStep, versionVars, storeVars, cliVars, extractVars>>

NextTemplate == Render

SpecTemplate == InitTemplate /\ [][NextTemplate]_vars

(***************************************************************************)
(* Properties of execute_plan, checked under Spec.                         *)
(***************************************************************************)
Last(q) == q[Len(q)]

\* <<0, 1, ..., n - 1>>
Upto(n) == [i \in 1..n |-> i - 1]

Executed == pc = "executed"

ExecFailed == Executed /\ ~execResult.ok

ExecSucceeded == Executed /\ execResult.ok

\* C1: the steps of the plan are attempted in index order, one at a time: the steps
\* attempted so far are 0, 1, ..., n - 1 in that order, every attempted step but the
\* last one has succeeded, and a step that failed is the last step ever attempted.
C1_StepsInIndexOrder ==
    /\ attempted = Upto(Len(attempted))
    /\ \A i \in 1..(Len(attempted) - 1) : \E j \in 1..Len(effects) : effects[j] = attempted[i]
    /\ \A i \in 1..Len(attempted) :
          (~\E j \in 1..Len(effects) : effects[j] = attempted[i])
              => (i = Len(attempted) /\ ExecFailed)
    /\ ExecFailed => Len(attempted) = Len(effects) + 1

\* A three-step plan whose second step has failed: the third was never attempted.
C1_Witness ==
    /\ ExecFailed
    /\ Len(planResult.val.steps) = 3
    /\ attempted = <<0, 1>>
    /\ effects = <<0>>

C3_NoRollback ==
    ExecFailed =>
        /\ effects = Upto(execResult.err.index)
        /\ attempted = Upto(execResult.err.index + 1)

\* The third step of a plan has failed and the effects of the first two stand.
C3_Witness ==
    /\ ExecFailed
    /\ execResult.err.index = 2
    /\ effects = <<0, 1>>

\* C4: execute_plan returns an ExecutionResult only when every step of the plan has
\* succeeded, and then completed_steps = total_steps = the number of steps.
C4_ResultOnlyOnFullSuccess ==
    ExecSucceeded =>
        /\ effects = Upto(Len(planResult.val.steps))
        /\ attempted = effects
        /\ execResult.val.completed_steps = Len(planResult.val.steps)
        /\ execResult.val.total_steps = Len(planResult.val.steps)

\* A plan of several steps of different kinds has run to its end.
C4_Witness ==
    /\ ExecSucceeded
    /\ Len(planResult.val.steps) = 3
    /\ planResult.val.steps[1].step.kind # planResult.val.steps[2].step.kind
    /\ execResult.val = ExecutionResult(3, 3)

(***************************************************************************)
(* Properties of plan_install, checked under SpecPlan.                     *)
(***************************************************************************)
Planned == planResult # NoResult

Modes == manifest.modes

\* The modes of the manifest that is_mode_compatible accepts for the environment.
CompatibleNames ==
    {n \in DOMAIN Modes :
        LET res == is_mode_compatible(n, Modes[n], env) IN res.ok /\ res.val}

\* The compatible modes whose ram_gb requirement is the largest among them.
LargestRamNames ==
    {n \in CompatibleNames :
        \A o \in CompatibleNames : required_ram(Modes[o]) <= required_ram(Modes[n])}

\* The zero-based position of a mode in the iteration order of manifest.modes.
ModePosition(n) == Cardinality({o \in DOMAIN Modes : StrLess(o, n)})

StartsWith(s, prefix) == Len(s) >= Len(prefix) /\ SubSeq(s, 1, Len(prefix)) = prefix

\* C5: if a mode named "full" is compatible, plan_install chooses it, whatever the
\* ram_gb requirements of the compatible modes are.
C5_FullIsChosen ==
    (Planned /\ "full" \in CompatibleNames) =>
        (planResult.ok /\ planResult.val.chosen_mode = "full")

\* "full" is chosen although modes before and after it are compatible and require
\* more RAM than it does.
C5_Witness ==
    /\ Planned
    /\ CompatibleNames = {"Full", "full", "pro"}
    /\ required_ram(Modes["full"]) < required_ram(Modes["Full"])
    /\ required_ram(Modes["full"]) < required_ram(Modes["pro"])
    /\ planResult.ok
    /\ planResult.val.chosen_mode = "full"

\* C6: when no compatible mode is named "full", the mode plan_install chooses is a
\* compatible mode whose ram_gb requirement (0 when absent) is the largest of all.
C6_LargestRamIsChosen ==
    (Planned /\ "full" \notin CompatibleNames /\ CompatibleNames # {}) =>
        (planResult.ok /\ planResult.val.chosen_mode \in LargestRamNames)

\* The first of two compatible modes requires more RAM than the second and is chosen.
C6_Witness ==
    /\ Planned
    /\ CompatibleNames = {"Full", "pro"}
    /\ required_ram(Modes["Full"]) > required_ram(Modes["pro"])
    /\ required_ram(Modes["pro"]) > 0
    /\ planResult.ok
    /\ planResult.val.chosen_mode = "Full"

\* C7, as claimed: when no compatible mode is named "full" and several compatible modes
\* share the largest ram_gb requirement, the first of them in manifest order is chosen.
C7_FirstOfTiedIsChosen ==
    (Planned /\ "full" \notin CompatibleNames /\ Cardinality(LargestRamNames) > 1) =>
        /\ planResult.ok
        /\ planResult.val.chosen_mode \in LargestRamNames
        /\ \A o \in LargestRamNames : ModePosition(planResult.val.chosen_mode) <= ModePosition(o)

\* C7, amended: when no compatible mode is named "full" and several compatible modes
\* share the largest ram_gb requirement, the last of them in manifest order is chosen.
C7_LastOfTiedIsChosen ==
    (Planned /\ "full" \notin CompatibleNames /\ Cardinality(LargestRamNames) > 1) =>
        /\ planResult.ok
        /\ planResult.val.chosen_mode \in LargestRamNames
        /\ \A o \in LargestRamNames : ModePosition(o) <= ModePosition(planResult.val.chosen_mode)

\* Two compatible modes declare the same, non-zero ram_gb and a plan was made.
C7_Witness ==
    /\ Planned
    /\ CompatibleNames = {"Full", "pro"}
    /\ required_ram(Modes["Full"]) = required_ram(Modes["pro"])
    /\ required_ram(Modes["pro"]) > 0
    /\ planResult.ok
    /\ planResult.val.chosen_mode = "pro"

\* C8: a mode without a step sequence for env.os is never the mode of the plan, whatever
\* its requirements are: plan_install fails when no other mode is left, and when it
\* fails the reason at the mode's position is "<mode>: missing required steps for <os>".
C8_NoStepsNeverCompatible ==
    Planned =>
        /\ (\A n \in DOMAIN Modes : env.os \notin DOMAIN Modes[n].steps) => ~planResult.ok
        /\ \A n \in DOMAIN Modes :
            env.os \notin DOMAIN Modes[n].steps =>
                /\ planResult.ok => planResult.val.chosen_mode # n
                /\ ~planResult.ok =>
                      /\ ModePosition(n) < Len(planResult.err.reasons)
                      /\ planResult.err.reasons[ModePosition(n) + 1]
                             = n \o ": missing required steps for " \o env.os

\* plan_install has failed for two modes without steps for env.os: one declares no
\* requirements, the other a requirement the environment does not meet.
C8_Witness ==
    /\ Planned
    /\ ~planResult.ok
    /\ env.os = "macos"
    /\ env.ram_gb = 0
    /\ DOMAIN Modes = {"full", "pro"}
    /\ "macos" \notin DOMAIN Modes["full"].steps
    /\ ~Modes["full"].requirements.some
    /\ "macos" \notin DOMAIN Modes["pro"].steps
    /\ required_ram(Modes["pro"]) > 0
    /\ planResult.err.reasons = <<"full: missing required steps for macos",
                                   "pro: missing required steps for macos">>

\* C9: plan_install fails if and only if no mode of the manifest is compatible; the
\* failure is NoCompatibleMode carrying the environment it was given, and in every
\* other case the result is a plan.
C9_FailsIffNoCompatibleMode ==
    Planned =>
        /\ ~planResult.ok <=> CompatibleNames = {}
        /\ ~planResult.ok =>
              /\ planResult.err.kind = "NoCompatibleMode"
              /\ planResult.err.environment = env
        /\ planResult.ok =>
              /\ DOMAIN planResult.val = {"app_name", "app_version", "chosen_mode", "os", "steps"}
              /\ planResult.val.chosen_mode \in DOMAIN Modes

\* plan_install has failed for a manifest of several modes, none compatible.
C9_Witness ==
    /\ Planned
    /\ Cardinality(DOMAIN Modes) = 3
    /\ CompatibleNames = {}
    /\ env.os = "windows"
    /\ ~planResult.ok
    /\ planResult.err.environment = env

\* C10: when plan_install fails, reasons has exactly one entry per mode of the manifest,
\* in manifest order: the i-th reason starts with the name of the i-th mode.
C10_OneReasonPerMode ==
    (Planned /\ ~planResult.ok) =>
        /\ Len(planResult.err.reasons) = Cardinality(DOMAIN Modes)
        /\ \A n \in DOMAIN Modes :
              StartsWith(planResult.err.reasons[ModePosition(n) + 1], n \o ": ")

\* plan_install has failed with three reasons, one for missing steps and two for
\* requirements that are not met.
C10_Witness ==
    /\ Planned
    /\ ~planResult.ok
    /\ Len(planResult.err.reasons) = 3
    /\ planResult.err.reasons[1] = "Full: missing required steps for macos"
    /\ StartsWith(planResult.err.reasons[2], "full: requires >= ")
    /\ StartsWith(planResult.err.reasons[3], "pro: requires CPU in ")

ProMode == Modes["pro"]

HasSteps == env.os \in DOMAIN ProMode.steps

Reqs == ProMode.requirements.val

RejectReason == planResult.err.reasons[1]

OsCheckFailed == ~planResult.ok /\ StartsWith(RejectReason, "pro: requires [")

CpuCheckFailed == ~planResult.ok /\ StartsWith(RejectReason, "pro: requires CPU in ")

RamCheckFailed == ~planResult.ok /\ StartsWith(RejectReason, "pro: requires >= ")

\* Two names equal up to the case of their letters.
SameIgnoringCase(a, b) == ToLowercase(a) = ToLowercase(b)

\* The constraint names the environment's family and, if it has a minimum version,
\* the environment's version is at least that minimum.
ConstraintSatisfied(c) ==
    /\ SameIgnoringCase(c.family, env.os)
    /\ c.min_version.some => version_meets(c.min_version.val, env.os_version)

\* C12: for a mode with steps for the OS and a non-empty requirements.os, the OS check
\* passes exactly when some constraint has the environment's family (compared without
\* regard to case) and either no min_version or one the environment's version is at
\* least; an empty requirements.os never rejects the mode.
C12_OsCheck ==
    (Planned /\ HasSteps /\ ProMode.requirements.some) =>
        /\ Reqs.os # <<>> =>
              (~OsCheckFailed <=> \E i \in 1..Len(Reqs.os) : ConstraintSatisfied(Reqs.os[i]))
        /\ Reqs.os = <<>> => ~OsCheckFailed

\* The first constraint of the list names another family and the second one, which
\* carries a minimum version the environment's version equals, is the one that matches.
C12_Witness ==
    /\ Planned /\ HasSteps /\ ProMode.requirements.some
    /\ Len(Reqs.os) = 2
    /\ ~OsCheckFailed
    /\ ~ConstraintSatisfied(Reqs.os[1])
    /\ ConstraintSatisfied(Reqs.os[2])
    /\ Reqs.os[2].min_version = Some(env.os_version)

OsCheckPassed == Planned /\ HasSteps /\ ProMode.requirements.some /\ ~OsCheckFailed

\* C13: for a mode that passed the step and OS checks, a non-empty requirements.cpu_arch
\* rejects the mode exactly when no entry equals the environment's cpu_arch without
\* regard to case; an empty list never rejects it.
C13_CpuCheck ==
    OsCheckPassed =>
        /\ Reqs.cpu_arch # <<>> =>
              (CpuCheckFailed <=>
                  ~\E i \in 1..Len(Reqs.cpu_arch) :
                       SameIgnoringCase(Reqs.cpu_arch[i], env.cpu_arch))
        /\ Reqs.cpu_arch = <<>> => ~CpuCheckFailed

\* An entry that differs from the environment's cpu_arch only in case lets the mode pass.
C13_Witness ==
    /\ OsCheckPassed
    /\ ~CpuCheckFailed
    /\ Reqs.cpu_arch = <<"X64">>
    /\ env.cpu_arch = "x64"

CpuCheckPassed == OsCheckPassed /\ ~CpuCheckFailed

\* C14: a mode that passed the step, OS and CPU checks is compatible exactly when its
\* ram_gb is unset or the environment's ram_gb is at least it; a mode without
\* requirements that has steps for the OS is always compatible.
C14_RamCheck ==
    /\ CpuCheckPassed =>
          (planResult.ok <=> (~Reqs.ram_gb.some \/ env.ram_gb >= Reqs.ram_gb.val))
    /\ (Planned /\ HasSteps /\ ~ProMode.requirements.some) => planResult.ok

\* The environment has exactly the required RAM and the mode is planned.
C14_Witness ==
    /\ CpuCheckPassed
    /\ Reqs.ram_gb.some
    /\ env.ram_gb = Reqs.ram_gb.val
    /\ planResult.ok
    /\ planResult.val.chosen_mode = "pro"

(***************************************************************************)
(* Claims about the version comparison (SpecVersion).                      *)
(***************************************************************************)
Compared == verdict # NoResult

BothParse(i, j) == verdict.parsed[i].some /\ verdict.parsed[j].some

\* A parsed version padded with trailing zeros to n segments.
Padded(segments, n) == [i \in 1..n |-> IF i <= Len(segments) THEN segments[i] ELSE 0]

\* The lexicographic order of two sequences of the same length.
LexLess(x, y) ==
    \E k \in 1..Len(x) : x[k] < y[k] /\ \A i \in 1..(k - 1) : x[i] = y[i]

\* The order the padded segment sequences of versions i and j are in.
PaddedOrder(i, j) ==
    LET a == verdict.parsed[i].val
        b == verdict.parsed[j].val
        n == IF Len(a) >= Len(b) THEN Len(a) ELSE Len(b)
    IN IF LexLess(Padded(a, n), Padded(b, n)) THEN "Less"
       ELSE IF LexLess(Padded(b, n), Padded(a, n)) THEN "Greater"
       ELSE "Equal"

\* Version i is at most version j.
AtMost(i, j) == verdict.order[i][j].val # "Greater"

\* C15: for version strings that both parse, compare_versions is the lexicographic
\* order of the segment sequences padded with trailing zeros ("10.0.1" > "10.0",
\* "10.0" = "10.0.0", "9.9" < "10.0"); the order is reflexive and transitive, and
\* version_meets(min, actual) holds exactly when actual is not less than min.
C15_PaddedOrder ==
    Compared =>
        /\ \A i, j \in 1..3 :
              BothParse(i, j) =>
                  /\ verdict.order[i][j].val = PaddedOrder(i, j)
                  /\ verdict.meets[i][j] <=> verdict.order[j][i].val # "Less"
                  /\ (versions[i] = "10.0.1" /\ versions[j] = "10.0") =>
                        verdict.order[i][j].val = "Greater"
                  /\ (versions[i] = "10.0" /\ versions[j] = "10.0.0") =>
                        verdict.order[i][j].val = "Equal"
                  /\ (versions[i] = "9.9" /\ versions[j] = "10.0") =>
                        verdict.order[i][j].val = "Less"
        /\ \A i \in 1..3 : verdict.parsed[i].some => AtMost(i, i)
        /\ (BothParse(1, 2) /\ BothParse(2, 3) /\ AtMost(1, 2) /\ AtMost(2, 3)) => AtMost(1, 3)

\* "9.9" is below "10.0", "10.0" is below "10.0.1" and equal to nothing shorter than it
\* by text: the order of the three comes from the numbers and the padding.
C15_Witness ==
    /\ Compared
    /\ versions = <<"9.9", "10.0", "10.0.1">>
    /\ verdict.order[1][2] = Some("Less")
    /\ verdict.order[3][2] = Some("Greater")
    /\ verdict.meets[2][3]
    /\ ~verdict.meets[2][1]

\* C16: when one of the two strings does not parse, version_meets(min, actual) holds
\* exactly when the strings are equal: version_meets("abc", "10.0") is false, and a
\* malformed string never meets a different minimum.
C16_MalformedFallsBackToEquality ==
    Compared =>
        \A i, j \in 1..3 :
            ~BothParse(i, j) =>
                /\ verdict.meets[i][j] <=> versions[i] = versions[j]
                /\ (versions[i] = "abc" /\ versions[j] = "10.0") => ~verdict.meets[i][j]

\* "abc" does not meet "10.0" nor "10.0" "abc", and "abc" meets itself.
C16_Witness ==
    /\ Compared
    /\ versions = <<"abc", "10.0", "abc">>
    /\ ~verdict.meets[1][2]
    /\ ~verdict.meets[2][1]
    /\ verdict.meets[1][3]

(***************************************************************************)
(* Claims about the history store (SpecSerial, SpecStore).                 *)
(***************************************************************************)
\* What load_state returns on the files as they are.
LoadNow == load_state(links, files)

IsPrefix(a, b) == Len(a) <= Len(b) /\ a = SubSeq(b, 1, Len(a))

\* C17: with the calls running one after another from an absent file, load_state
\* returns the records of the calls that returned Ok, as many and in the order they
\* returned; what a reader loaded earlier is a prefix of it, so the log only grows.
C17_LoadReturnsAppendsInOrder ==
    /\ LoadNow = Ok(State(log))
    /\ \A i \in 1..Len(log) : log[i].timestamp \in Callers /\ appendPc[log[i].timestamp] = "ok"
    /\ \A p \in Callers : appendPc[p] = "ok" => \E i \in 1..Len(log) : log[i] = InstallRecord(p)
    /\ loaded # NoResult => (loaded.result.ok /\ IsPrefix(loaded.result.val.installs, log))

\* Every call returned Ok, and the file holds their records in the order of the calls.
C17_Witness ==
    /\ Len(log) = MaxAppends
    /\ \A p \in Callers : appendPc[p] = "ok"
    /\ LoadNow.ok
    /\ Len(LoadNow.val.installs) = MaxAppends
    /\ LoadNow.val.installs = log
    /\ loaded # NoResult /\ loaded.found /\ Len(loaded.result.val.installs) = 1

\* The call was killed after File::create of the temporary file and before its rename
\* returned.
CrashedMidSave(p) == p \in crashed /\ appendPc[p] \in {"write", "rename"}

\* C18: after a crash between the start of the temporary write and the end of the
\* rename, and until another call starts, the real file has the content it had when
\* the call started, and load_state returns the State of that content.
C18_CrashKeepsRealFile ==
    \A p \in Callers :
        (CrashedMidSave(p) /\ latest = p) =>
            /\ RealFile = before[p]
            /\ LoadNow.ok
            /\ LoadNow = (IF before[p].some THEN Deserialize(before[p].val)
                          ELSE Ok(State(<<>>)))

\* A call that found a file with a record in it was killed with the temporary file
\* created and still empty.
C18_Witness ==
    \E p \in Callers :
        /\ CrashedMidSave(p) /\ latest = p
        /\ appendPc[p] = "write"
        /\ links[TmpPath] # 0
        /\ files[links[TmpPath]] = <<>>
        /\ before[p].some
        /\ Len(log) >= 1
        /\ LoadNow = Ok(State(log))

\* C19: in every interleaving of load_state with add_install_record calls, one or
\* several, a load that finds the file reads a complete serialization.
C19_NoTornRead ==
    (loaded # NoResult /\ loaded.found) => loaded.result.ok

\* Two calls p and q returned Ok and no other call has started.
OnlyTwoSucceeded(p, q) ==
    /\ p # q
    /\ appendPc[p] = "ok" /\ appendPc[q] = "ok"
    /\ \A r \in Callers \ {p, q} : appendPc[r] = "idle"

\* C20: when two concurrent calls both returned Ok, the file is complete and ends
\* with the record of the call that returned last; it holds either both new records
\* or, the other one lost, that record alone.
C20_TwoSuccessesOneOrTwoRecords ==
    \A p, q \in Callers :
        OnlyTwoSucceeded(p, q) =>
            /\ LoadNow.ok
            /\ LET installs == LoadNow.val.installs
               IN /\ Len(installs) \in {1, 2}
                  /\ installs[Len(installs)] = log[Len(log)]
                  /\ Len(installs) = 2 => installs = log

\* The lost update: both calls returned Ok and the file holds one of the two records.
C20_Witness ==
    \E p, q \in Callers :
        /\ OnlyTwoSucceeded(p, q)
        /\ Len(log) = 2
        /\ LoadNow.ok
        /\ Len(LoadNow.val.installs) = 1

\* C21: load_state returns the empty State, not an error, when the file does not
\* exist; the first call on an absent file that returns Ok leaves a file holding
\* exactly its one record.
C21_AbsentFileIsEmptyState ==
    /\ (loaded # NoResult /\ ~loaded.found) => loaded.result = Ok(State(<<>>))
    /\ \A p \in Callers :
          (before[p] = None /\ appendPc[p] = "ok" /\ latest = p) =>
              RealFile = Some(<<OpenToken, RecordToken(InstallRecord(p)), CloseToken>>)

\* A reader found no file and got the empty State; then the first call returned Ok and
\* the file holds its record alone.
C21_Witness ==
    /\ loaded # NoResult /\ ~loaded.found /\ loaded.result.ok
    /\ \E p \in Callers :
          /\ before[p] = None /\ appendPc[p] = "ok" /\ latest = p
          /\ log = <<InstallRecord(p)>>
          /\ RealFile.some /\ Len(RealFile.val) = 3

(***************************************************************************)
(* Claims about the install run (SpecInstall).                             *)
(***************************************************************************)
\* The run is over.
Exited == pc = "exit"

\* The history file is as the run found it: no temporary file, and the real file
\* absent or one of the files a run may find.
HistoryUntouched ==
    /\ links[TmpPath] = 0
    /\ files \in HistoryFiles
    /\ links[StatePath] = Len(files)

\* C22: when load_manifest (reading, parsing, validation) or plan_install fails, the
\* run ends with no plan step executed and no record appended. detect_environment
\* has no failing path in env_detect.rs.
C22_EarlyFailureHasNoSideEffect ==
    /\ (~validate_manifest(manifest).ok \/ exitCode = Some(1) \/ exitCode = Some(2)
            \/ (planResult # NoResult /\ ~planResult.ok)) =>
           /\ attempted = <<>>
           /\ effects = <<>>
           /\ execResult = NoResult
           /\ appendCalls = <<>>
           /\ HistoryUntouched
    /\ (Exited /\ ~validate_manifest(manifest).ok) => exitCode = Some(1)
    /\ (Exited /\ planResult # NoResult /\ ~planResult.ok) => exitCode = Some(2)

\* A run whose manifest passed validation ended in plan_install with code 2, the
\* history file with its earlier record untouched.
C22_Witness ==
    /\ Exited
    /\ validate_manifest(manifest).ok
    /\ planResult # NoResult /\ ~planResult.ok
    /\ exitCode = Some(2)
    /\ attempted = <<>> /\ appendCalls = <<>>
    /\ RealFile = Some(Serialize(State(<<InstallRecord(0)>>)))

\* C23: a run that reaches execution hands exactly one record to add_install_record,
\* once and only after execute_plan has returned; its status is success exactly when
\* execute_plan returned Ok, and its mode is the plan's chosen_mode.
C23_OneRecordAfterExecution ==
    /\ Len(appendCalls) <= 1
    /\ appendCalls # <<>> => (execResult # NoResult /\ pc = "exit")
    /\ (Exited /\ planResult # NoResult /\ planResult.ok) =>
           /\ execResult # NoResult
           /\ Len(appendCalls) = 1
           /\ appendCalls[1].record.status = "success" <=> execResult.ok
           /\ appendCalls[1].record.status = "failed" <=> ~execResult.ok
           /\ appendCalls[1].record.mode = planResult.val.chosen_mode
           /\ appendCalls[1].result.ok =>
                 (LoadNow.ok /\ Last(LoadNow.val.installs) = appendCalls[1].record)

\* The second step of a run failed; the one record of the run says failed and was
\* appended after the record of an earlier run.
C23_Witness ==
    /\ Exited
    /\ execResult # NoResult /\ ~execResult.ok
    /\ attempted = <<0, 1>>
    /\ Len(appendCalls) = 1
    /\ appendCalls[1].record.status = "failed"
    /\ appendCalls[1].result.ok
    /\ LoadNow.ok /\ Len(LoadNow.val.installs) = 2

\* C24: the exit code and the failed step index the run reports follow from
\* execute_plan alone, whether add_install_record succeeded or failed: 0 when it
\* returned Ok, 3 with the index of the failed step when it did not.
C24_AppendFailureKeepsOutcome ==
    (Exited /\ execResult # NoResult) =>
        /\ execResult.ok => (exitCode = Some(0) /\ reportedIndex = None)
        /\ ~execResult.ok =>
              (exitCode = Some(3) /\ reportedIndex = Some(Last(attempted)))

\* add_install_record failed on a history file it could not parse, and the run
\* reports success.
C24_Witness ==
    /\ Exited
    /\ execResult # NoResult /\ execResult.ok
    /\ Len(appendCalls) = 1
    /\ ~appendCalls[1].result.ok
    /\ ~LoadNow.ok
    /\ exitCode = Some(0)

(***************************************************************************)
(* Claims about load_manifest (SpecManifest).                              *)
(***************************************************************************)
\* load_manifest has accepted the manifest.
Accepted == pc = "detect"

\* load_manifest has rejected the manifest.
Rejected == pc = "exit" /\ exitCode = Some(1)

\* What the claim asks of a manifest.
WellFormed(m) ==
    /\ m.name # ""
    /\ m.version # ""
    /\ DOMAIN m.modes # {}
    /\ \A n \in DOMAIN m.modes :
          LET mode == m.modes[n]
          IN /\ DOMAIN mode.steps # {}
             /\ DOMAIN mode.steps \subseteq {"windows", "macos"}
             /\ mode.requirements.some =>
                   \A i \in 1..Len(mode.requirements.val.os) :
                       mode.requirements.val.os[i].family \in {"windows", "macos"}
             /\ \A platform \in DOMAIN mode.steps :
                   /\ mode.steps[platform] # <<>>
                   /\ \A i \in 1..Len(mode.steps[platform]) :
                         mode.steps[platform][i].kind = "run" =>
                             mode.steps[platform][i].run # ""

\* C30: a manifest load_manifest accepts has a name and a version, a mode, a
\* platform per mode, only "windows" and "macos" as platforms and as OS families of
\* requirements, steps for every platform and no Run step with an empty command; a
\* manifest that breaks one of these is rejected.
C30_AcceptedManifestIsWellFormed ==
    /\ Accepted => WellFormed(manifest)
    /\ (pc # "load_manifest" /\ ~WellFormed(manifest)) => Rejected

\* A manifest of two modes, one with requirements, is accepted; it is well-formed.
C30_Witness ==
    /\ Accepted
    /\ DOMAIN manifest.modes = {"lite", "pro"}
    /\ manifest.modes["pro"].requirements.some
    /\ DOMAIN manifest.modes["lite"].steps = {"windows", "macos"}
    /\ WellFormed(manifest)

(***************************************************************************)
(* Claims about replace_placeholders (SpecTemplate).                       *)
(***************************************************************************)
\* What a part of the template is to become: the value of its key where vars has the
\* key, the part itself otherwise.
PartRendered(part, template_vars) ==
    IF part.kind = "placeholder" /\ part.key \in DOMAIN template_vars
    THEN template_vars[part.key]
    ELSE part.raw

RECURSIVE JoinRendered(_, _)
JoinRendered(parts, template_vars) ==
    IF parts = <<>> THEN ""
    ELSE PartRendered(parts[1], template_vars) \o JoinRendered(Tail(parts), template_vars)

\* C29: scanning left to right once, every placeholder whose trimmed key is in vars
\* becomes the value of the key; placeholders with other keys, a "{{" nothing closes
\* and all other text are copied as they are, and values are not scanned again. With
\* empty vars the output is the input, and "Host: {{ host }}, Port: {{port}}" with
\* host = example.com gives "Host: example.com, Port: {{port}}". A "{{" opens a
\* placeholder that ends at the next "}}", so a "{{" inside it is part of its key.
C29_PlaceholdersReplacedOnce ==
    rendered # NoResult =>
        /\ rendered.val = JoinRendered(templateStep.parts, templateStep.vars)
        /\ templateStep.vars = <<>> => rendered.val = templateStep.source
        /\ (/\ templateStep.source = "Host: {{ host }}, Port: {{port}}"
            /\ templateStep.vars = [k \in {"host"} |-> "example.com"]) =>
               rendered.val = "Host: example.com, Port: {{port}}"

\* The template of the example is rendered with host = example.com.
C29_Witness ==
    /\ rendered # NoResult
    /\ templateStep.source = "Host: {{ host }}, Port: {{port}}"
    /\ templateStep.vars = [k \in {"host"} |-> "example.com"]
    /\ rendered.val = "Host: example.com, Port: {{port}}"

(***************************************************************************)
(* Claims about perform_extract (SpecExtract).                             *)
(***************************************************************************)
\* The name starts at the root.
NameIsAbsolute(name) == Len(name) > 0 /\ SubSeq(name, 1, 1) = "/"

\* Some component of the name is "..": two dots between separators or the ends.
NameHasDotDot(name) ==
    \E i \in 1..(Len(name) - 1) :
        /\ SubSeq(name, i, i + 1) = ".."
        /\ i = 1 \/ SubSeq(name, i - 1, i - 1) = "/"
        /\ i + 1 = Len(name) \/ SubSeq(name, i + 2, i + 2) = "/"

UnsafeName(name) == NameHasDotDot(name) \/ NameIsAbsolute(name)

\* The entry the loop is at.
CurrentEntry == extractStep.entries[entryIdx + 1]

AtEntry == pc = "extract_entry" /\ entryIdx < Len(extractStep.entries)

EntryRejected == extractResult.kind = "rejected"

\* A real location at or below the real destination root.
InsideDest(at) == Len(at) >= Len(DestRoot) /\ SubSeq(at, 1, Len(DestRoot)) = DestRoot

\* C25: an entry whose name has a parent-directory component or is absolute makes the
\* step fail with an error that names the entry; the step creates nothing for it, and
\* after the failure the step does nothing more, so no later entry is processed.
C25_UnsafeEntryRejected ==
    [][/\ pc # "exit"
       /\ (AtEntry /\ UnsafeName(CurrentEntry)) =>
             /\ extractResult'.kind = "rejected"
             /\ extractResult'.name = CurrentEntry
             /\ extractResult'.message =
                  IF NameHasDotDot(CurrentEntry) THEN "archive entry escapes destination"
                  ELSE "archive entry has absolute path"
             /\ pc' = "exit"
             /\ fsNodes' = fsNodes
             /\ created' = created
             /\ entryIdx' = entryIdx]_vars

\* The second of two entries is "a/../../b": it is rejected after the first entry was
\* extracted, and the step has stopped at it.
C25_Witness ==
    /\ pc = "exit"
    /\ extractResult = Rejection("archive entry escapes destination", "a/../../b")
    /\ entryIdx = 1
    /\ Len(created) = 1

\* C26 as stated: a step that rejects an entry has written no file of the archive,
\* wherever the rejected entry stands.
C26_RejectionWritesNothing ==
    EntryRejected => \A i \in 1..Len(created) : ~created[i].wrote.some

\* C26: a step that rejects an entry has written nothing for that entry or for a later
\* one; the entries before it have been extracted, one after the other, and their
\* files are on disk: with the rejected entry first nothing is written, otherwise the
\* files of the earlier entries stay.
C26_RejectionKeepsEarlierEntries ==
    EntryRejected =>
        /\ Len(created) = entryIdx
        /\ \A i \in 1..Len(created) :
             /\ created[i].index = i - 1
             /\ created[i].name = extractStep.entries[i]
             /\ ~IsDir(created[i].name) =>
                   /\ created[i].wrote.some
                   /\ created[i].wrote.val \in DOMAIN fsNodes
                   /\ fsNodes[created[i].wrote.val].kind = "file"

\* "ok.txt" was written before the second entry was rejected.
C26_Witness ==
    /\ EntryRejected
    /\ entryIdx = 1
    /\ created[1].name = "ok.txt"
    /\ created[1].wrote = Some(<<"home", "app", "ok.txt">>)
    /\ <<"home", "app", "ok.txt">> \in DOMAIN fsNodes

\* C27: whatever an entry creates, directory or file, has its real location inside the
\* real destination root, also with a link in the destination that leads outside.
C27_NothingWrittenOutside ==
    \A i \in 1..Len(created) :
        /\ \A at \in created[i].made : InsideDest(at)
        /\ created[i].wrote.some => InsideDest(created[i].wrote.val)

\* No component of the entry's path below the destination is a link, so its target
\* really lies inside the destination.
ReallyInside(name) ==
    \A k \in 1..Len(Components(name)) :
        LET at == DestRoot \o SubSeq(Components(name), 1, k)
        IN at \in DOMAIN fsNodes => fsNodes[at].kind # "link"

SafeEntry(name) == ~UnsafeName(name) /\ ReallyInside(name)

\* C28: an entry with a relative name without parent-directory component whose target
\* really lies inside the destination is never rejected, and its file is written at
\* its place under the destination, below directories made for it, for a relative and
\* for an absolute destination and for a target that exists or not.
C28_SafeEntryAccepted ==
    /\ EntryRejected => ~SafeEntry(CurrentEntry)
    /\ \A i \in 1..Len(created) :
         (SafeEntry(created[i].name) /\ ~IsDir(created[i].name)) =>
             /\ created[i].wrote = Some(DestRoot \o Components(created[i].name))
             /\ \A k \in 1..(Len(Components(created[i].name)) - 1) :
                  LET at == DestRoot \o SubSeq(Components(created[i].name), 1, k)
                  IN at \in DOMAIN fsNodes /\ fsNodes[at].kind = "dir"

(***************************************************************************)
(* No panic in plan_install (SpecPlan).                                    *)
(***************************************************************************)
PlanPanicked == Planned /\ ~planResult.ok /\ planResult.err.kind = "Panic"

\* C31: plan_install never panics, and the mode a plan names is a mode of the manifest
\* that passed the compatibility check for the environment, so it has steps for
\* env.os, and these are the steps of the plan.
C31_ChosenModeIsCompatible ==
    /\ ~PlanPanicked
    /\ pc # "panicked"
    /\ (Planned /\ planResult.ok) =>
          /\ CompatibleNames # {}
          /\ planResult.val.chosen_mode \in CompatibleNames
          /\ env.os \in DOMAIN Modes[planResult.val.chosen_mode].steps
          /\ Len(planResult.val.steps) = Len(Modes[planResult.val.chosen_mode].steps[env.os])

\* A plan for macos from a manifest where one mode has no macos steps and another mode
\* fails a requirement: the plan names the third mode, which has macos steps.
C31_Witness ==
    /\ Planned
    /\ planResult.ok
    /\ env.os = "macos"
    /\ Cardinality(DOMAIN Modes) = 3
    /\ Cardinality(CompatibleNames) = 1
    /\ \E n \in DOMAIN Modes : "macos" \notin DOMAIN Modes[n].steps
    /\ planResult.val.chosen_mode \in CompatibleNames
    /\ planResult.val.steps # <<>>

(***************************************************************************)
(* A failed append (SpecInstall).                                          *)
(***************************************************************************)
\* The file the call found cannot be read, or its text does not parse.
FoundUnloadable(call) ==
    call.found.some /\ (~call.io.readable \/ ~Deserialize(call.found.val).ok)

\* C32: a call of add_install_record that returns an error leaves the real file as it
\* found it. A file that cannot be read or parsed makes the call fail with nothing
\* written and nothing renamed, so it is never overwritten; after a failed write of
\* the temporary file or a failed rename the real file has its previous content.
C32_FailedAppendKeepsRealFile ==
    \A i \in 1..Len(appendCalls) :
        LET call == appendCalls[i]
        IN /\ ~call.result.ok => RealFile = call.found
           /\ FoundUnloadable(call) =>
                 /\ ~call.result.ok
                 /\ RealFile = call.found
                 /\ HistoryUntouched
           /\ (~call.io.ok \/ ~call.io.renamed \/ ~call.io.opened) => ~call.result.ok

\* write_all failed part of the way on a history that held one record: the temporary
\* file holds the part written and the real file the record it held.
C32_Witness ==
    /\ Len(appendCalls) = 1
    /\ ~appendCalls[1].result.ok
    /\ ~appendCalls[1].io.ok
    /\ appendCalls[1].io.written = 2
    /\ links[TmpPath] # 0
    /\ Len(files[links[TmpPath]]) = 2
    /\ RealFile = Some(Serialize(State(<<InstallRecord(0)>>)))
    /\ RealFile = appendCalls[1].found

====
